---- MODULE Spec2Model ----
(***************************************************************************)
(* Verification model of langchain-steel's browser-automation core:        *)
(*   - the agent loop (ClaudeComputerUseAgent.execute_task and             *)
(*     ClaudeAgent.execute_task),                                          *)
(*   - the remote browser session life cycle (SteelBrowserSession,         *)
(*     AsyncSteelBrowserSession, SteelBrowser) and the task runners,       *)
(*   - the session pool (SteelSessionManager, SteelClient,                 *)
(*     AsyncSteelClient).                                                  *)
(* Each part has its own specification over its own group of variables.    *)
(***************************************************************************)
EXTENDS Integers, Sequences, FiniteSets, TLC

None == "None"

Min(a, b) == IF a < b THEN a ELSE b
Max(a, b) == IF a > b THEN a ELSE b

IsPrefix(s, t) == Len(s) <= Len(t) /\ \A i \in 1..Len(s) : s[i] = t[i]

(***************************************************************************)
(* Bounds of the model.                                                    *)
(***************************************************************************)
MaxIterations == 2      \* largest max_iterations / max_steps a task is run with
MaxSessions == 2        \* number of sessions the provider creates
MaxShots == 3           \* number of captures in a run of direct cache calls
MaxAttempt == 12        \* largest attempt and max_retries given to the backoff
MaxCoord == 5           \* coordinates range over -MaxCoord..MaxCoord
MaxDim == 4             \* viewport widths and heights range over 1..MaxDim
MaxFail == 3            \* a call of the page up to the MaxFail-th may raise
MaxGotoFails == 4       \* number of goto calls of open that may fail
MaxThreshold == 2        \* failure_threshold ranges over 1..MaxThreshold
MaxTimeout == 2          \* recovery_timeout ranges over 0..MaxTimeout
MaxClock == 4            \* the breaker clock runs over 0..MaxClock
MaxCalls == 5            \* calls made through the breaker
MaxInFlight == 2         \* async calls awaiting at the same time
MaxTaskSessions == 3     \* sessions the browser agent creates

(***************************************************************************)
(* Program constants.                                                      *)
(***************************************************************************)
RETRY_LIMIT == 10            \* while retry_attempt < 10
DEFAULT_MAX_RETRIES == 10    \* _handle_rate_limit_error(max_retries=10)
CA_MAX_RETRIES == 3          \* _call_claude_with_retry(max_retries=3)
CACHE_DURATION == 2          \* _cache_duration = 1.0 s, in half seconds
CONNECT_MAX_RETRIES == 3     \* _connect_to_browser_with_retry(max_retries=3)
SESSION_TTL == 1             \* session_ttl = 300 s, in units of 300 s

\* the pool's clock runs until an entry created at time 0 has expired
MaxTime == SESSION_TTL + 1

VARIABLES
    bt_impl,         \* "sync": _execute_browser_task, "async": its async twin
    bt_pc,           \* "idle", "run", "returned", "raised"
    bt_arg,          \* the session_id argument, 0 for None
    bt_session_id,   \* the local session_id, rebound after a creation
    bt_session,      \* the session object in use, 0 for none
    bt_format,       \* return_format
    bt_created,      \* sessions create_session returned
    bt_released,     \* sessions release_session was called with
    bt_outcome,      \* how the task ended
    cb,              \* the CircuitBreaker object
    cb_time,         \* time.time()
    cb_attempts,     \* calls of call / async_call so far
    cb_invoked,      \* invocations of the wrapped function so far
    cb_inflight,     \* async calls awaiting the wrapped function
    cb_streak,       \* expected failures since the last success
    cb_last,         \* what the last call did
    impl,            \* "CCU": ClaudeComputerUseAgent (sync and async), "CA": ClaudeAgent
    max_iterations,  \* max_iterations / max_steps
    pc,              \* position in execute_task: "loop_top", "call", "process", "done"
    iterations,      \* iterations / step + 1
    retry_attempt,   \* retry_attempt / attempt of the current model call site
    messages,        \* input_items + new_items / messages
    response,        \* response.content of the current iteration
    blockIdx,        \* index of the block the for loop is at
    result,          \* the dictionary execute_task returned
    shots,           \* number of screenshots captured so far
    cache,           \* _last_screenshot_cache (0: None)
    cacheAge,        \* time.time() - _screenshot_cache_timestamp, capped
    respCount,       \* number of responses the model gave
    firstResponse,   \* the first response the model gave
    requested,       \* ids of the computer tool_use blocks the model sent, in order
    executed,        \* ids of the tool_use blocks whose action was executed, in order
    lastSent,        \* the messages of the latest model call
    execAtSend,      \* executed, at the latest model call
    lastOutcome,     \* what the latest model call did
    modelCalls,      \* calls of client.beta.messages.create so far
    everSentinel,    \* some response held a sentinel text block
    everModelError,  \* some model call raised
    everExecError,   \* some block raised while being processed
    \* ---- the remote browser session and the task runner around it
    s_impl,          \* "sync": SteelBrowserSession, "async": AsyncSteelBrowserSession,
                     \* "simple": SteelBrowser
    s_pc,            \* position in __enter__ / the with body / __exit__
    session,         \* self.session is set
    playwright,      \* self._playwright is set
    browser,         \* self._browser: 0 (None) or the control connection it holds
    page,            \* self._page: "none", or a page that is "open" or "closed"
    ctx,             \* the browsing context: "has_page", "empty" or "gone"
    connect_attempt, \* attempt of _connect_to_browser_with_retry
    opened,          \* the control connections that were established
    closeTried,      \* the control connections whose close() was called
    teardown,        \* the teardown steps attempted, in order
    releaseTried,    \* number of sessions.release calls
    stopTried,       \* number of playwright.stop calls
    openResult,      \* "pending", "ok" or "raised"
    failedAt,        \* the step of open that raised ("none" if none)
    bodyOutcome,     \* how the with body ended: "none", "success", "failure", "raise"
    runnerOutcome,   \* "running", "returned", "raised"
    closeRaised,     \* a teardown step's exception escaped
    lastAct,         \* what the latest executeAction / screenshot call did
    \* ---- the session pool of one client
    p_impl,          \* "sync": SteelClient, "async": AsyncSteelClient
    pool,            \* SteelSessionManager._sessions
    now,             \* time.time()
    nextId,          \* the id the provider gives to the next session
    held,            \* per task: the sessions it was handed and has not released
    tpc,             \* per task: "idle", "claiming", "creating"
    chosen,          \* per task: the entry its lookup found
    treuse,          \* per task: reuse_existing of the create_session under way
    provReleased,    \* the sessions whose release was asked of the provider
    lastOp,          \* the latest lookup or cleanup, with the expired entries it met
    \* ---- direct calls of _get_screenshot_with_cache
    g_prev,          \* the call before the latest, if nothing touched the cache since
    g_last,          \* the latest call: its argument, what it returned, the cache's age
    \* ---- direct calls of the pure functions
    f_call,          \* the function called and its arguments
    f_pc,            \* "idle", "called", "returned", "reapplied"
    f_ret,           \* the value returned, <<>> for None
    f_first,         \* the value the first of two calls returned
    \* ---- direct calls of the action executors
    x_impl,          \* "session" / "async" (execute_computer_action), "simple" (execute_action)
    x_in,            \* the arguments of the latest call
    x_closed,        \* the page was closed when the latest call began
    x_pos,           \* _last_mouse_position, NoCoord before the first move
    x_events,        \* the input events the latest call produced, in order
    x_ncalls,        \* the number of calls of the page the latest call made
    x_error,         \* the error the latest call raised, NoErr if it returned
    \* ---- the start-URL navigation of open
    nav              \* the destinations tried in order, where the page landed, and
                     \* what the page did: how many goto calls failed, whether it was lost

loopVars == <<impl, max_iterations, pc, iterations, retry_attempt, messages,
              response, blockIdx, result, shots, cache, cacheAge, respCount,
              firstResponse, requested, executed, lastSent, execAtSend,
              lastOutcome, modelCalls, everSentinel,
              everModelError, everExecError>>

sessVars == <<s_impl, s_pc, session, playwright, browser, page, ctx, connect_attempt,
              opened, closeTried, teardown, releaseTried, stopTried, openResult,
              failedAt, bodyOutcome, runnerOutcome, closeRaised, lastAct>>

poolVars == <<p_impl, pool, now, nextId, held, tpc, chosen, treuse, provReleased,
              lastOp>>

getVars == <<g_prev, g_last>>
funVars == <<f_call, f_pc, f_ret, f_first>>
execVars == <<x_impl, x_in, x_closed, x_pos, x_events, x_ncalls, x_error>>
navVars == <<nav>>
taskVars == <<bt_impl, bt_pc, bt_arg, bt_session_id, bt_session, bt_format, bt_created,
              bt_released, bt_outcome>>
breakerVars == <<cb, cb_time, cb_attempts, cb_invoked, cb_inflight, cb_streak, cb_last>>

vars == <<loopVars, sessVars, poolVars, getVars, funVars, execVars, navVars, breakerVars, taskVars>>

\* the variables outside each part
notLoop == <<sessVars, poolVars, getVars, funVars, execVars, navVars, breakerVars, taskVars>>
notSess == <<loopVars, poolVars, getVars, funVars, execVars, navVars, breakerVars, taskVars>>
notSessNav == <<loopVars, poolVars, getVars, funVars, execVars, breakerVars, taskVars>>
notPool == <<loopVars, sessVars, getVars, funVars, execVars, navVars, breakerVars, taskVars>>
notGet == <<sessVars, poolVars, funVars, execVars, navVars, breakerVars, taskVars>>
notFun == <<loopVars, sessVars, poolVars, getVars, execVars, navVars, breakerVars, taskVars>>
notExec == <<loopVars, sessVars, poolVars, getVars, funVars, navVars, breakerVars, taskVars>>
notBreaker == <<loopVars, sessVars, poolVars, getVars, funVars, execVars, navVars, taskVars>>
notTask == <<loopVars, sessVars, poolVars, getVars, funVars, execVars, navVars, breakerVars>>

(***************************************************************************)
(* Texts are sequences of tokens; `x in text` is token containment.        *)
(***************************************************************************)
Contains(text, tok) == \E i \in 1..Len(text) : text[i] = tok

T_COMPLETED == <<"TASK_COMPLETED:", "done">>
T_FAILED == <<"TASK_FAILED:", "blocked">>
T_PLAIN == <<"thinking">>
T_BOTH == <<"TASK_FAILED:", "blocked", "TASK_COMPLETED:", "done">>
Texts == {T_COMPLETED, T_FAILED, T_PLAIN, T_BOTH}

IsCompleted_typo(text) == Contains(text, "TASK_COMPLETE")
IsCompleted_unless_failed(text) ==
    Contains(text, "TASK_COMPLETED:") /\ ~Contains(text, "TASK_FAILED:")
IsCompleted(text) == Contains(text, "TASK_COMPLETED:")
IsFailed(text) == Contains(text, "TASK_FAILED:")

(***************************************************************************)
(* Content blocks of a model response.                                     *)
(***************************************************************************)
TextBlock(t) ==
    [type |-> "text", text |-> t, name |-> None, action |-> None,
     has_duration |-> FALSE, id |-> 0]
ToolBlock(n, a, d) ==
    [type |-> "tool_use", text |-> <<>>, name |-> n, action |-> a,
     has_duration |-> d, id |-> 0]

Blocks ==
    {TextBlock(t) : t \in Texts}
    \cup {ToolBlock("computer", "left_click", FALSE),
          ToolBlock("computer", "wait", TRUE),
          ToolBlock("computer", "screenshot", FALSE),
          ToolBlock("bash", "left_click", FALSE)}

\* the responses the model gives: no block, any one block, and pairs of blocks
Responses ==
    {<<>>}
    \cup {<<b>> : b \in Blocks}
    \cup {<<ToolBlock("computer", "left_click", FALSE), TextBlock(T_COMPLETED)>>,
          <<TextBlock(T_FAILED), TextBlock(T_COMPLETED)>>,
          <<ToolBlock("computer", "left_click", FALSE), ToolBlock("computer", "screenshot", FALSE)>>,
          <<TextBlock(T_PLAIN), ToolBlock("computer", "left_click", FALSE)>>,
          <<ToolBlock("computer", "wait", TRUE), ToolBlock("computer", "left_click", FALSE)>>,
          <<ToolBlock("bash", "left_click", FALSE), ToolBlock("computer", "screenshot", FALSE)>>}

HasSentinel(resp) ==
    \E i \in 1..Len(resp) :
        /\ resp[i].type = "text"
        /\ Contains(resp[i].text, "TASK_COMPLETED:") \/ Contains(resp[i].text, "TASK_FAILED:")

(***************************************************************************)
(* Conversation turns.                                                     *)
(***************************************************************************)
UserTask ==
    [role |-> "user", kind |-> "text", text |-> <<"task">>, id |-> 0,
     name |-> None, action |-> None, data |-> 0]
\* new_items.append / messages.append: the turns go to the end of the conversation
Extend_front(msgs, turns) == turns \o msgs
Extend(msgs, turns) == msgs \o turns

AssistantText(t) ==
    [role |-> "assistant", kind |-> "text", text |-> t, id |-> 0,
     name |-> None, action |-> None, data |-> 0]
ToolUseTurn(b) ==
    [role |-> "assistant", kind |-> "tool_use", text |-> <<>>, id |-> b.id,
     name |-> b.name, action |-> b.action, data |-> 0]
ToolResultTurn(b, shot) ==
    [role |-> "user", kind |-> "tool_result", text |-> <<>>, id |-> b.id,
     name |-> None, action |-> None, data |-> shot]

(***************************************************************************)
(* Results of execute_task.                                                *)
(***************************************************************************)
NoResult ==
    [success |-> FALSE, reason |-> "none", text |-> <<>>, iterations |-> -1,
     final_url |-> "absent", session_url |-> "absent"]
TaskResult(i, ok, why, txt, its, url) ==
    [success |-> ok, reason |-> why, text |-> txt, iterations |-> its,
     final_url |-> IF i = "CCU" THEN url ELSE "absent",
     session_url |-> IF i = "CA" THEN "viewer" ELSE "absent"]

\* get_current_url: the page's URL, "" when the page is gone
Urls == {"https://page", ""}

ErrorText(outcome) ==
    CASE outcome = "rate_limit" -> "rate_limit_error"
      [] outcome = "timeout" -> "timeout_error"
      [] OTHER -> "api_error"

(***************************************************************************)
(* Rate-limit backoff.  Delays are in tenths of a second; jitter is        *)
(* random.uniform(0.2, 0.8).                                               *)
(***************************************************************************)
base_delays == <<1, 2, 4, 8, 15, 30, 60, 90, 120, 180>>
Jitters == 2..8
NoDelay == -1

handle_rate_limit_error_no_limit(attempt, max_retries, jitter) ==
    10 * base_delays[Min(attempt, Len(base_delays) - 1) + 1] + jitter

handle_rate_limit_error(attempt, max_retries, jitter) ==
    IF attempt >= max_retries
    THEN NoDelay
    ELSE 10 * base_delays[Min(attempt, Len(base_delays) - 1) + 1] + jitter

Pow2(n) == IF n <= 0 THEN 1 ELSE IF n = 1 THEN 2 ELSE IF n = 2 THEN 4 ELSE IF n = 3 THEN 8 ELSE 16

\* ClaudeAgent._call_claude_with_retry: the wait before the next attempt
ca_wait_time(attempt, max_retries) ==
    IF attempt < max_retries - 1 THEN 10 * Min(Pow2(attempt), 10) ELSE NoDelay

\* the errors each loop retries
IsRetryable_all(i, outcome) == outcome \in {"rate_limit", "timeout", "other"}
IsRetryable(i, outcome) ==
    IF i = "CCU" THEN outcome \in {"rate_limit", "timeout"} ELSE outcome = "rate_limit"

(***************************************************************************)
(* The agent loop: execute_task.                                           *)
(***************************************************************************)
Ids(seq) == [k \in 1..Len(seq) |-> seq[k].id]

\* the block the for loop visits at position k
BlockAt_reversed(resp, k) == resp[Len(resp) + 1 - k]
BlockAt(resp, k) == resp[k]

CacheValid == cache # 0 /\ cacheAge < CACHE_DURATION

\* the environment of one action: the transport works, the page is gone, or
\* a transport call raises
Envs == {"ok", "page_closed", "transport_error"}

Raised(err) == [raised |-> TRUE, err |-> err, shot |-> 0, captured |-> FALSE]
Shot(n, fresh) == [raised |-> FALSE, err |-> "", shot |-> n, captured |-> fresh]

\* SteelBrowserSession.execute_computer_action as the agent calls it: the
\* agent passes action, text, coordinate, scroll_direction, scroll_amount and
\* key, and no duration
execute_computer_action(b, env) ==
    IF env = "page_closed" THEN Raised("Browser session has been closed")
    ELSE IF b.action \in {"hold_key", "wait"} THEN Raised("duration must be a number")
    ELSE IF env = "transport_error" THEN Raised("transport error")
    ELSE Shot(shots + 1, TRUE)

\* SteelBrowser.execute_action as ClaudeAgent calls it (duration is passed)
execute_action(b, env) ==
    IF env # "ok" THEN Raised("transport error")
    ELSE IF b.action = "wait" /\ ~b.has_duration THEN Raised("duration is None")
    ELSE Shot(shots + 1, TRUE)

\* _get_screenshot_with_cache(force_new=False)
get_screenshot_with_cache(env) ==
    IF CacheValid THEN Shot(cache, FALSE)
    ELSE IF env = "ok" THEN Shot(shots + 1, TRUE)
    ELSE Raised("screenshot failed")

ExecOutcome(b, env) ==
    IF impl = "CA" THEN execute_action(b, env)
    ELSE IF b.action = "screenshot" THEN get_screenshot_with_cache(env)
    ELSE execute_computer_action(b, env)

Finish(ok, why, txt) ==
    /\ pc' = "done"
    /\ \E url \in Urls : result' = TaskResult(impl, ok, why, txt, iterations, url)

\* time.sleep(2.0) between iterations (ClaudeComputerUseAgent only)
AfterBlocksAge(age) ==
    IF impl = "CCU" /\ iterations < max_iterations THEN CACHE_DURATION ELSE age

\* the for loop goes to the next block, or the iteration ends
Advance(age) ==
    IF blockIdx < Len(response)
    THEN /\ blockIdx' = blockIdx + 1
         /\ pc' = "process"
         /\ cacheAge' = age
    ELSE /\ blockIdx' = blockIdx
         /\ pc' = "loop_top"
         /\ cacheAge' = AfterBlocksAge(age)

\* the state at the head of execute_task, called with max_iterations
\* (max_steps) out of budgets
LoopInitWith(budgets) ==
    /\ impl \in {"CCU", "CA"}
    /\ max_iterations \in budgets
    /\ pc = "loop_top"
    /\ iterations = 0
    /\ retry_attempt = 0
    /\ messages = <<UserTask>>
    /\ response = <<>>
    /\ blockIdx = 0
    /\ result = NoResult
    /\ shots = 0
    /\ cache = 0
    /\ cacheAge = CACHE_DURATION
    /\ respCount = 0
    /\ firstResponse = <<>>
    /\ requested = <<>>
    /\ executed = <<>>
    /\ lastSent = <<>>
    /\ execAtSend = <<>>
    /\ lastOutcome = "none"
    /\ modelCalls = 0
    /\ everSentinel = FALSE
    /\ everModelError = FALSE
    /\ everExecError = FALSE

LoopInit == LoopInitWith(0..MaxIterations)

\* "retry_attempt = 0" at the head of every iteration
FreshRetryAttempt_kept(old) == old
FreshRetryAttempt(old) == 0

\* while iterations < max_iterations / for step in range(max_steps), and the
\* return after the loop
LoopTop ==
    /\ pc = "loop_top"
    /\ IF iterations < max_iterations
       THEN /\ iterations' = iterations + 1
            /\ retry_attempt' = FreshRetryAttempt(retry_attempt)
            /\ response' = <<>>
            /\ blockIdx' = 0
            /\ pc' = "call"
            /\ result' = result
       ELSE /\ Finish(FALSE, "budget", <<"stopped after max iterations">>)
            /\ UNCHANGED <<iterations, retry_attempt, response, blockIdx>>
    /\ UNCHANGED <<impl, max_iterations, messages, shots, cache, cacheAge,
                   respCount, firstResponse, requested, executed, lastSent,
                   execAtSend, lastOutcome, modelCalls,
                   everSentinel, everModelError, everExecError>>
    /\ UNCHANGED notLoop

\* what every client.beta.messages.create call leaves behind
SendMarks(outcome) ==
    /\ lastSent' = messages
    /\ execAtSend' = executed
    /\ lastOutcome' = outcome
    /\ modelCalls' = modelCalls + 1

\* client.beta.messages.create returns a response
ModelResponds(r) ==
    /\ pc = "call"
    /\ SendMarks("ok")
    /\ LET resp == [k \in 1..Len(r) |->
                        [r[k] EXCEPT !.id = 10 * (respCount + 1) + k]]
       IN /\ response' = resp
          /\ requested' = requested \o
                 Ids(SelectSeq(resp, LAMBDA b : b.type = "tool_use" /\ b.name = "computer"))
          /\ firstResponse' = IF respCount = 0 THEN resp ELSE firstResponse
          /\ everSentinel' = (everSentinel \/ HasSentinel(resp))
    /\ respCount' = respCount + 1
    /\ blockIdx' = 1
    /\ pc' = IF Len(r) = 0 THEN "loop_top" ELSE "process"
    /\ cacheAge' = IF Len(r) = 0 THEN AfterBlocksAge(cacheAge) ELSE cacheAge
    /\ UNCHANGED <<impl, max_iterations, iterations, retry_attempt, messages,
                   result, shots, cache, executed, everModelError, everExecError>>
    /\ UNCHANGED notLoop

\* client.beta.messages.create raises: RateLimitError, APITimeoutError or
\* another exception
ModelRaises(outcome) ==
    /\ pc = "call"
    /\ SendMarks(outcome)
    /\ everModelError' = TRUE
    /\ IF ~IsRetryable(impl, outcome)
       THEN /\ Finish(FALSE, "model_error", <<"Error:", ErrorText(outcome)>>)
            /\ UNCHANGED <<retry_attempt, cacheAge>>
       ELSE IF impl = "CCU"
       THEN \E jitter \in Jitters :
              LET delay == handle_rate_limit_error(retry_attempt, DEFAULT_MAX_RETRIES, jitter)
              IN IF delay = NoDelay
                 THEN /\ Finish(FALSE, "rate_limit_exhausted",
                                <<"Rate limit exceeded after retries:", ErrorText(outcome)>>)
                      /\ UNCHANGED <<retry_attempt, cacheAge>>
                 ELSE /\ cacheAge' = CACHE_DURATION
                      /\ retry_attempt' = retry_attempt + 1
                      /\ IF retry_attempt + 1 < RETRY_LIMIT
                         THEN pc' = "call" /\ result' = result
                         ELSE Finish(FALSE, "no_response",
                                     <<"Failed to get response after retries">>)
       ELSE LET wait_time == ca_wait_time(retry_attempt, CA_MAX_RETRIES)
            IN IF wait_time = NoDelay
               THEN /\ Finish(FALSE, "model_error", <<"Error:", ErrorText(outcome)>>)
                    /\ UNCHANGED <<retry_attempt, cacheAge>>
               ELSE /\ cacheAge' = CACHE_DURATION
                    /\ retry_attempt' = retry_attempt + 1
                    /\ pc' = "call"
                    /\ result' = result
    /\ UNCHANGED <<impl, max_iterations, iterations, messages, response, blockIdx,
                   shots, cache, respCount, firstResponse, requested, executed,
                   everSentinel, everExecError>>
    /\ UNCHANGED notLoop

\* a text block of the response
ProcessText ==
    /\ pc = "process"
    /\ LET b == BlockAt(response, blockIdx)
       IN /\ b.type = "text"
          /\ IF IsCompleted(b.text)
             THEN /\ Finish(TRUE, "completed", b.text)
                  /\ UNCHANGED <<messages, blockIdx, cacheAge>>
             ELSE IF IsFailed(b.text)
             THEN /\ Finish(FALSE, "failed", b.text)
                  /\ UNCHANGED <<messages, blockIdx, cacheAge>>
             ELSE /\ messages' = Extend(messages, <<AssistantText(b.text)>>)
                  /\ Advance(cacheAge)
                  /\ result' = result
    /\ UNCHANGED <<impl, max_iterations, iterations, retry_attempt, response,
                   shots, cache, respCount, firstResponse, requested, executed,
                   lastSent, execAtSend, lastOutcome, modelCalls, everSentinel, everModelError, everExecError>>
    /\ UNCHANGED notLoop

\* a tool_use block whose name is not "computer": nothing is done with it
ProcessOtherTool ==
    /\ pc = "process"
    /\ LET b == BlockAt(response, blockIdx)
       IN b.type = "tool_use" /\ b.name # "computer"
    /\ Advance(cacheAge)
    /\ UNCHANGED <<impl, max_iterations, iterations, retry_attempt, messages,
                   response, result, shots, cache, respCount, firstResponse,
                   requested, executed, lastSent, execAtSend,
                   lastOutcome, modelCalls, everSentinel,
                   everModelError, everExecError>>
    /\ UNCHANGED notLoop

\* a computer tool_use block: execute the action, append the tool_use and the
\* tool_result; an exception ends the task
ProcessTool(env) ==
    /\ pc = "process"
    /\ LET b == BlockAt(response, blockIdx)
           out == ExecOutcome(b, env)
       IN /\ b.type = "tool_use" /\ b.name = "computer"
          /\ executed' = Append(executed, b.id)
          /\ IF out.raised
             THEN /\ Finish(FALSE, "processing_error",
                            <<IF impl = "CCU" THEN "Error processing response:" ELSE "Error:",
                              out.err>>)
                  /\ everExecError' = TRUE
                  /\ UNCHANGED <<messages, blockIdx, shots, cache, cacheAge>>
             ELSE /\ messages' = Extend(messages, <<ToolUseTurn(b), ToolResultTurn(b, out.shot)>>)
                  /\ shots' = IF out.captured THEN out.shot ELSE shots
                  /\ cache' = IF impl = "CCU" THEN out.shot ELSE cache
                  /\ Advance(IF impl = "CCU" /\ out.captured THEN 0 ELSE cacheAge)
                  /\ UNCHANGED <<result, everExecError>>
    /\ UNCHANGED <<impl, max_iterations, iterations, retry_attempt, response,
                   respCount, firstResponse, requested, lastSent, execAtSend,
                   lastOutcome, modelCalls, everSentinel,
                   everModelError>>
    /\ UNCHANGED notLoop

\* time passes while a screenshot is cached
Tick ==
    /\ pc \in {"call", "process"}
    /\ impl = "CCU"
    /\ cache # 0
    /\ cacheAge < CACHE_DURATION
    /\ cacheAge' = cacheAge + 1
    /\ UNCHANGED <<impl, max_iterations, pc, iterations, retry_attempt, messages,
                   response, blockIdx, result, shots, cache, respCount,
                   firstResponse, requested, executed, lastSent, execAtSend,
                   lastOutcome, modelCalls, everSentinel,
                   everModelError, everExecError>>
    /\ UNCHANGED notLoop

LoopNext ==
    \/ LoopTop
    \/ \E r \in Responses : ModelResponds(r)
    \/ \E o \in {"rate_limit", "timeout", "other"} : ModelRaises(o)
    \/ ProcessText
    \/ ProcessOtherTool
    \/ \E env \in Envs : ProcessTool(env)
    \/ Tick

\* no task is running
LoopIdle == LoopInit /\ impl = "CCU" /\ max_iterations = 0

(***************************************************************************)
(* The remote browser session: open (__enter__ / __aenter__), the with     *)
(* body, close (__exit__ / __aexit__ / _cleanup), and the task runner      *)
(* (run_browser_task, create_browser_automation_agent) around them.        *)
(***************************************************************************)
NoAct == [kind |-> "none", pageDead |-> FALSE, ctx |-> "has_page",
          reacquireTried |-> FALSE, keepalive |-> "skipped", primary |-> "none",
          fallback |-> "none", outcome |-> "none"]

SessInit ==
    /\ s_impl \in {"sync", "async", "simple"}
    /\ s_pc = "create"
    /\ session = FALSE
    /\ playwright = FALSE
    /\ browser = 0
    /\ page = "none"
    /\ ctx = "has_page"
    /\ connect_attempt = 0
    /\ opened = {}
    /\ closeTried = {}
    /\ teardown = <<>>
    /\ releaseTried = 0
    /\ stopTried = 0
    /\ openResult = "pending"
    /\ failedAt = "none"
    /\ bodyOutcome = "none"
    /\ runnerOutcome = "running"
    /\ closeRaised = FALSE
    /\ lastAct = NoAct

\* no session is being driven
SessIdle == SessInit /\ s_impl = "sync"

\* the except block of __enter__ / __aenter__ closes browser, playwright and
\* session; SteelBrowser's calls _cleanup, which closes the page first
FirstCleanupStep == IF s_impl = "simple" THEN "close_page" ELSE "close_browser"

\* __enter__ raised at the given step: go to the except block
OpenFails(step) ==
    /\ openResult' = "raised"
    /\ failedAt' = step
    /\ s_pc' = FirstCleanupStep

\* steel_client.sessions.create
OpenCreate(ok) ==
    /\ s_pc = "create"
    /\ IF ok
       THEN /\ session' = TRUE
            /\ s_pc' = "start_playwright"
            /\ UNCHANGED <<openResult, failedAt>>
       ELSE /\ OpenFails("create")
            /\ UNCHANGED session
    /\ UNCHANGED <<s_impl, playwright, browser, page, ctx, connect_attempt, opened,
                   closeTried, teardown, releaseTried, stopTried, bodyOutcome,
                   runnerOutcome, closeRaised, lastAct>>
    /\ UNCHANGED notSess

\* sync_playwright().start() and the API key lookup
OpenStartPlaywright(o) ==
    /\ s_pc = "start_playwright"
    /\ CASE o = "ok" ->
              /\ playwright' = TRUE
              /\ s_pc' = "connect"
              /\ UNCHANGED <<openResult, failedAt>>
         [] o = "no_key" ->
              /\ playwright' = TRUE
              /\ OpenFails("api_key")
         [] OTHER ->
              /\ OpenFails("start_playwright")
              /\ UNCHANGED playwright
    /\ UNCHANGED <<s_impl, session, browser, page, ctx, connect_attempt, opened,
                   closeTried, teardown, releaseTried, stopTried, bodyOutcome,
                   runnerOutcome, closeRaised, lastAct>>
    /\ UNCHANGED notSess

\* the number of connection attempts open makes
ConnectAttempts(i) == IF i = "sync" THEN CONNECT_MAX_RETRIES ELSE 1

\* one pass of the loop of _connect_to_browser_with_retry, or the single
\* connect_over_cdp of the other two sessions.  o: "raise" (connect_over_cdp
\* raises), "exc_after_connect" (the connection is made, then contexts[0],
\* pages[0], new_page or set_viewport_size raises), "invalid" (the connection
\* is made and _validate_connection returns False), "valid"
OpenConnect(o) ==
    /\ s_pc = "connect"
    /\ o = "invalid" => s_impl = "sync"
    /\ LET conn == Cardinality(opened) + 1
           made == o # "raise"
           last == connect_attempt + 1 >= ConnectAttempts(s_impl)
       IN /\ opened' = IF made THEN opened \cup {conn} ELSE opened
          /\ browser' = IF made THEN conn ELSE browser
          /\ page' = CASE o = "valid" -> "open"
                       [] o = "invalid" -> "closed"
                       [] OTHER -> page
          /\ IF o = "valid"
             THEN /\ s_pc' = "setup"
                  /\ UNCHANGED <<connect_attempt, openResult, failedAt>>
             ELSE IF last
             THEN /\ OpenFails("connect")
                  /\ connect_attempt' = connect_attempt + 1
             ELSE /\ connect_attempt' = connect_attempt + 1
                  /\ UNCHANGED <<s_pc, openResult, failedAt>>
    /\ UNCHANGED <<s_impl, session, playwright, ctx, closeTried, teardown,
                   releaseTried, stopTried, bodyOutcome, runnerOutcome,
                   closeRaised, lastAct>>
    /\ UNCHANGED notSess

\* page.on("pageerror") and the viewport; the two sessions with a start URL
\* navigate next, SteelBrowser returns
OpenSetup(ok) ==
    /\ s_pc = "setup"
    /\ IF ok
       THEN /\ s_pc' = IF s_impl = "simple" THEN "ready" ELSE "navigate"
            /\ openResult' = IF s_impl = "simple" THEN "ok" ELSE openResult
            /\ UNCHANGED failedAt
       ELSE OpenFails("setup")
    /\ UNCHANGED <<s_impl, session, playwright, browser, page, ctx, connect_attempt,
                   opened, closeTried, teardown, releaseTried, stopTried,
                   bodyOutcome, runnerOutcome, closeRaised, lastAct>>
    /\ UNCHANGED notSess

\* ---- the navigation to the start URL
NoNav == [tried |-> <<>>, landed |-> "none", fails |-> 0, lost |-> 0]
NavInit == nav = NoNav

\* fallback_urls of _safe_navigate_to_start_url
fallback_urls == <<"search", "example", "placeholder">>

\* the destinations open goes to, in order, until one goto succeeds
Destinations(i) ==
    IF i = "sync" THEN <<"start">> \o fallback_urls ELSE <<"start", "placeholder">>

\* _safe_navigate_to_start_url / the navigation of __aenter__.  The first
\* `fails` goto calls raise; in the sync session the page is lost (and
\* _ensure_page_ready returns False) after the `lost`-th failed goto, 0 for never
OpenNavigate(fails, lost) ==
    /\ s_pc = "navigate"
    /\ lost > 0 => (s_impl = "sync" /\ lost <= fails)
    /\ LET dests == Destinations(s_impl)
           gone == lost > 0 /\ lost <= Len(dests)
           n == IF gone THEN lost ELSE Min(fails + 1, Len(dests))
           landed == ~gone /\ fails < Len(dests)
       IN /\ nav' = [tried |-> SubSeq(dests, 1, n),
                     landed |-> IF landed THEN dests[n] ELSE "none",
                     fails |-> fails, lost |-> lost]
          /\ page' = IF gone THEN "closed" ELSE page
          /\ ctx' = IF gone THEN "gone" ELSE ctx
    /\ s_pc' = "ready"
    /\ openResult' = "ok"
    /\ UNCHANGED <<s_impl, session, playwright, browser, connect_attempt, opened,
                   closeTried, teardown, releaseTried, stopTried, failedAt,
                   bodyOutcome, runnerOutcome, closeRaised, lastAct>>
    /\ UNCHANGED notSessNav

\* the page closes under the session; c is what is left of its context
PageCloses(c) ==
    /\ s_pc = "ready"
    /\ page = "open"
    /\ page' = "closed"
    /\ ctx' = c
    /\ UNCHANGED <<s_impl, s_pc, session, playwright, browser, connect_attempt, opened,
                   closeTried, teardown, releaseTried, stopTried, openResult,
                   failedAt, bodyOutcome, runnerOutcome, closeRaised, lastAct>>
    /\ UNCHANGED notSess

\* _ensure_page_ready: a missing or closed page is replaced by a page of
\* contexts[0] (pages[0], or new_page() when it has none)
ensure_page_ready(newPageOk) ==
    IF page = "open" THEN [ready |-> TRUE, page |-> page, ctx |-> ctx, tried |-> FALSE]
    ELSE IF browser # 0 /\ ctx = "has_page"
    THEN [ready |-> TRUE, page |-> "open", ctx |-> ctx, tried |-> TRUE]
    ELSE IF browser # 0 /\ ctx = "empty" /\ newPageOk
    THEN [ready |-> TRUE, page |-> "open", ctx |-> "has_page", tried |-> TRUE]
    ELSE [ready |-> FALSE, page |-> page, ctx |-> ctx, tried |-> TRUE]

\* the check at the head of execute_computer_action: does the call go on?
\* (SteelBrowser.execute_action has no check and fails in the transport)
PageCheckPasses == page = "open"

\* execute_computer_action / execute_action for an action with valid
\* parameters; env: the transport works or raises
ExecuteAction(env) ==
    /\ s_pc = "ready"
    /\ lastAct' = [kind |-> "action", pageDead |-> page # "open", ctx |-> ctx,
                   reacquireTried |-> FALSE, keepalive |-> "skipped",
                   primary |-> "none", fallback |-> "none",
                   outcome |-> IF ~PageCheckPasses
                               THEN IF s_impl = "simple" THEN "transport_error"
                                    ELSE "session_closed"
                               ELSE IF env = "ok" THEN "executed"
                               ELSE "transport_error"]
    /\ UNCHANGED <<s_impl, s_pc, session, playwright, browser, page, ctx, connect_attempt,
                   opened, closeTried, teardown, releaseTried, stopTried,
                   openResult, failedAt, bodyOutcome, runnerOutcome, closeRaised>>
    /\ UNCHANGED notSess

\* page.screenshot and, in the two sessions of claude_computer_use, the CDP
\* Page.captureScreenshot tried when page.screenshot raised.  env: "ok",
\* "primary_fails" (page.screenshot raises, the CDP call works), "both_fail";
\* on a closed page both calls raise
capture(i, alive, env) ==
    IF alive /\ env = "ok"
    THEN [primary |-> "ok", fallback |-> "none", outcome |-> "captured"]
    ELSE IF i = "simple"
    THEN [primary |-> "failed", fallback |-> "none", outcome |-> "capture_failed"]
    ELSE IF alive /\ env = "primary_fails"
    THEN [primary |-> "failed", fallback |-> "ok", outcome |-> "captured_fallback"]
    ELSE [primary |-> "failed", fallback |-> "failed", outcome |-> "capture_failed"]

\* screenshot(): SteelBrowserSession first runs its keepalive check when one
\* is due (ka: "skipped", "passed", "failed"; a failure is logged) and makes
\* sure of the page
Screenshot(env, newPageOk, ka) ==
    /\ s_pc = "ready"
    /\ s_impl # "sync" => ka = "skipped"
    /\ page # "open" => ka # "passed"
    /\ LET e == ensure_page_ready(newPageOk)
           dead == page # "open"
           c == capture(s_impl, IF s_impl = "sync" THEN TRUE ELSE ~dead, env)
       IN IF s_impl = "sync"
          THEN /\ page' = e.page
               /\ ctx' = e.ctx
               /\ lastAct' = [kind |-> "screenshot", pageDead |-> dead, ctx |-> ctx,
                              reacquireTried |-> e.tried, keepalive |-> ka,
                              primary |-> IF e.ready THEN c.primary ELSE "none",
                              fallback |-> IF e.ready THEN c.fallback ELSE "none",
                              outcome |-> IF e.ready THEN c.outcome ELSE "not_ready"]
          ELSE /\ UNCHANGED <<page, ctx>>
               /\ lastAct' = [kind |-> "screenshot", pageDead |-> dead, ctx |-> ctx,
                              reacquireTried |-> FALSE, keepalive |-> ka,
                              primary |-> c.primary, fallback |-> c.fallback,
                              outcome |-> c.outcome]
    /\ UNCHANGED <<s_impl, s_pc, session, playwright, browser, connect_attempt, opened,
                   closeTried, teardown, releaseTried, stopTried, openResult,
                   failedAt, bodyOutcome, runnerOutcome, closeRaised>>
    /\ UNCHANGED notSess

\* the with statement: whatever way the body ends, __exit__ runs
AfterBody_skip_on_raise(o) == IF o = "raise" THEN "closed" ELSE "close_page"
AfterBody(o) == "close_page"

\* the with body (agent construction and execute_task) ends: it returns a
\* success result, returns a failure result, or raises
BodyEnds(o) ==
    /\ s_pc = "ready"
    /\ bodyOutcome' = o
    /\ s_pc' = AfterBody(o)
    /\ runnerOutcome' = IF AfterBody(o) = "closed" THEN "raised" ELSE runnerOutcome
    /\ UNCHANGED <<s_impl, session, playwright, browser, page, ctx, connect_attempt,
                   opened, closeTried, teardown, releaseTried, stopTried,
                   openResult, failedAt, closeRaised, lastAct>>
    /\ UNCHANGED notSess

HandleSet_no_release(step) ==
    CASE step = "close_page" -> page # "none"
      [] step = "close_browser" -> browser # 0
      [] step = "stop_playwright" -> playwright
      [] OTHER -> session /\ openResult = "ok"
\* is the handle a teardown step works on set?
HandleSet(step) ==
    CASE step = "close_page" -> page # "none"
      [] step = "close_browser" -> browser # 0
      [] step = "stop_playwright" -> playwright
      [] OTHER -> session

StepAfter(step) ==
    CASE step = "close_page" -> "close_browser"
      [] step = "close_browser" -> "stop_playwright"
      [] step = "stop_playwright" -> "release"
      [] OTHER -> "closed"

\* every teardown step is wrapped in try/except: its exception is logged (or
\* passed over) and does not leave the teardown
StepEscapes_unguarded(failed) == failed
StepEscapes(failed) == FALSE

\* how the runner ends once the teardown is over
EndOfRun ==
    IF openResult = "raised" \/ bodyOutcome = "raise" THEN "raised" ELSE "returned"

\* one teardown step of __exit__ / __aexit__ / _cleanup / the except block of
\* __enter__; failed: the step's call raises
TeardownStep(failed) ==
    /\ s_pc \in {"close_page", "close_browser", "stop_playwright", "release"}
    /\ IF HandleSet(s_pc)
       THEN /\ teardown' = Append(teardown, [step |-> s_pc, failed |-> failed])
            /\ closeTried' = IF s_pc = "close_browser" THEN closeTried \cup {browser}
                             ELSE closeTried
            /\ stopTried' = IF s_pc = "stop_playwright" THEN stopTried + 1 ELSE stopTried
            /\ releaseTried' = IF s_pc = "release" THEN releaseTried + 1 ELSE releaseTried
            /\ page' = IF s_pc = "close_page" /\ ~failed THEN "closed" ELSE page
            /\ IF StepEscapes(failed)
               THEN /\ s_pc' = "closed"
                    /\ closeRaised' = TRUE
                    /\ runnerOutcome' = "raised"
               ELSE /\ s_pc' = StepAfter(s_pc)
                    /\ closeRaised' = closeRaised
                    /\ runnerOutcome' = IF StepAfter(s_pc) = "closed" THEN EndOfRun
                                        ELSE runnerOutcome
       ELSE /\ s_pc' = StepAfter(s_pc)
            /\ runnerOutcome' = IF StepAfter(s_pc) = "closed" THEN EndOfRun
                                ELSE runnerOutcome
            /\ UNCHANGED <<teardown, closeTried, stopTried, releaseTried, page,
                           closeRaised>>
    /\ UNCHANGED <<s_impl, session, playwright, browser, ctx, connect_attempt, opened,
                   openResult, failedAt, bodyOutcome, lastAct>>
    /\ UNCHANGED notSess

SessNext ==
    \/ \E ok \in BOOLEAN : OpenCreate(ok)
    \/ \E o \in {"ok", "no_key", "raise"} : OpenStartPlaywright(o)
    \/ \E o \in {"raise", "exc_after_connect", "invalid", "valid"} : OpenConnect(o)
    \/ \E ok \in BOOLEAN : OpenSetup(ok)
    \/ \E fails \in 0..MaxGotoFails, lost \in 0..MaxGotoFails : OpenNavigate(fails, lost)
    \/ \E c \in {"has_page", "empty", "gone"} : PageCloses(c)
    \/ \E env \in {"ok", "error"} : ExecuteAction(env)
    \/ \E env \in {"ok", "primary_fails", "both_fail"}, n \in BOOLEAN,
          ka \in {"skipped", "passed", "failed"} : Screenshot(env, n, ka)
    \/ \E o \in {"success", "failure", "raise"} : BodyEnds(o)
    \/ \E failed \in BOOLEAN : TeardownStep(failed)

(***************************************************************************)
(* The session pool: SteelSessionManager under SteelClient ("sync", no     *)
(* lock is taken, so a lookup of one thread interleaves with the others)   *)
(* and AsyncSteelClient ("async", lookups and updates under _session_lock).*)
(* Time is counted in units of session_ttl.                                *)
(***************************************************************************)
Tasks == {"t1", "t2"}
SessionIds == 1..MaxSessions

\* an entry of _sessions; "last_used" is written and never read, and is left out
Absent == [present |-> FALSE, created_at |-> 0, reusable |-> FALSE, in_use |-> FALSE]

PoolIds == {i \in SessionIds : pool[i].present}

\* current_time - session_data["created_at"] > self.session_ttl
Expired(e) == now - e.created_at > SESSION_TTL

ExpiredIds == {i \in PoolIds : Expired(pool[i])}

\* get_available_session: the first entry, in insertion order, that is not
\* expired, not in use and reusable (0: None)
FirstAvailable ==
    LET ok == {i \in PoolIds : ~Expired(pool[i]) /\ ~pool[i].in_use /\ pool[i].reusable}
    IN IF ok = {} THEN 0 ELSE CHOOSE i \in ok : \A j \in ok : i <= j

\* the entries the loop of get_available_session visits before it returns
Visited(found) == IF found = 0 THEN PoolIds ELSE {i \in PoolIds : i <= found}

\* what get_available_session does to an expired entry it visits: it goes on
\* to the next entry and leaves the pool as it is
AfterLookup(p, found) == p

\* add_session
NewEntry(reusable) ==
    [present |-> TRUE, created_at |-> now, reusable |-> reusable, in_use |-> FALSE]

\* cleanup_expired_sessions
WithoutExpired == [i \in SessionIds |-> IF i \in ExpiredIds THEN Absent ELSE pool[i]]

NoOp == [kind |-> "none", expiredSeen |-> {}, returned |-> 0]

PoolInit ==
    /\ p_impl \in {"sync", "async"}
    /\ pool = [i \in SessionIds |-> Absent]
    /\ now = 0
    /\ nextId = 1
    /\ held = [t \in Tasks |-> {}]
    /\ tpc = [t \in Tasks |-> "idle"]
    /\ chosen = [t \in Tasks |-> 0]
    /\ treuse = [t \in Tasks |-> FALSE]
    /\ provReleased = {}
    /\ lastOp = NoOp

\* no client is in use
PoolIdle == PoolInit /\ p_impl = "sync"

\* create_session, up to the call of the provider.  AsyncSteelClient does
\* the lookup and the marking in one critical section; in SteelClient the
\* marking is a later step of the thread (Claim).
CreateSession(t, reuse_existing) ==
    /\ tpc[t] = "idle"
    /\ treuse' = [treuse EXCEPT ![t] = reuse_existing]
    /\ LET found == IF reuse_existing THEN FirstAvailable ELSE 0
       IN /\ lastOp' = IF reuse_existing
                       THEN [kind |-> "lookup",
                             expiredSeen |-> Visited(found) \cap ExpiredIds,
                             returned |-> found]
                       ELSE NoOp
          /\ IF found = 0
             THEN /\ tpc' = [tpc EXCEPT ![t] = "creating"]
                  /\ pool' = AfterLookup(pool, found)
                  /\ UNCHANGED <<held, chosen>>
             ELSE IF p_impl = "async"
             THEN /\ pool' = [AfterLookup(pool, found) EXCEPT ![found].in_use = TRUE]
                  /\ held' = [held EXCEPT ![t] = @ \cup {found}]
                  /\ UNCHANGED <<tpc, chosen>>
             ELSE /\ tpc' = [tpc EXCEPT ![t] = "claiming"]
                  /\ chosen' = [chosen EXCEPT ![t] = found]
                  /\ pool' = AfterLookup(pool, found)
                  /\ UNCHANGED held
    /\ UNCHANGED <<p_impl, now, nextId, provReleased>>
    /\ UNCHANGED notPool

\* SteelClient: the thread marks the entry it found and returns its session
Claim(t) ==
    /\ tpc[t] = "claiming"
    /\ pool' = IF pool[chosen[t]].present
               THEN [pool EXCEPT ![chosen[t]].in_use = TRUE]
               ELSE pool
    /\ held' = [held EXCEPT ![t] = @ \cup {chosen[t]}]
    /\ tpc' = [tpc EXCEPT ![t] = "idle"]
    /\ chosen' = [chosen EXCEPT ![t] = 0]
    /\ lastOp' = NoOp
    /\ UNCHANGED <<p_impl, now, nextId, treuse, provReleased>>
    /\ UNCHANGED notPool

\* create_session, from the provider's answer on: the new session is added
\* to the pool and returned; on an exception the expired entries are cleaned
\* up (AsyncSteelClient also releases them) and an error is raised
CreateDone(t, ok) ==
    /\ tpc[t] = "creating"
    /\ tpc' = [tpc EXCEPT ![t] = "idle"]
    /\ IF ok
       THEN /\ nextId <= MaxSessions
            /\ pool' = [pool EXCEPT ![nextId] = NewEntry(treuse[t])]
            /\ held' = [held EXCEPT ![t] = @ \cup {nextId}]
            /\ nextId' = nextId + 1
            /\ lastOp' = NoOp
            /\ UNCHANGED provReleased
       ELSE /\ pool' = WithoutExpired
            /\ provReleased' = IF p_impl = "async" THEN provReleased \cup ExpiredIds
                               ELSE provReleased
            /\ lastOp' = [kind |-> "cleanup", expiredSeen |-> ExpiredIds, returned |-> 0]
            /\ UNCHANGED <<held, nextId>>
    /\ UNCHANGED <<p_impl, now, chosen, treuse>>
    /\ UNCHANGED notPool

\* SteelClient.release_session / AsyncSteelClient.release_session (also the
\* exit of AsyncSteelClient.session_context): release at the provider and
\* remove from the pool, whether or not the provider call raised
ClientRelease(t, id) ==
    /\ tpc[t] = "idle"
    /\ id \in held[t]
    /\ provReleased' = provReleased \cup {id}
    /\ pool' = [pool EXCEPT ![id] = Absent]
    /\ held' = [held EXCEPT ![t] = @ \ {id}]
    /\ lastOp' = NoOp
    /\ UNCHANGED <<p_impl, now, nextId, tpc, chosen, treuse>>
    /\ UNCHANGED notPool

\* SteelSessionManager.release_session: the exit of SteelClient.session_context
ManagerRelease(t, id) ==
    /\ p_impl = "sync"
    /\ tpc[t] = "idle"
    /\ id \in held[t]
    /\ pool' = IF pool[id].present
               THEN [pool EXCEPT ![id].in_use = FALSE]
               ELSE pool
    /\ held' = [held EXCEPT ![t] = @ \ {id}]
    /\ lastOp' = NoOp
    /\ UNCHANGED <<p_impl, now, nextId, tpc, chosen, treuse, provReleased>>
    /\ UNCHANGED notPool

\* cleanup_sessions: cleanup_expired_sessions, then release at the provider
CleanupSessions ==
    /\ ExpiredIds # {}
    /\ pool' = WithoutExpired
    /\ provReleased' = provReleased \cup ExpiredIds
    /\ lastOp' = [kind |-> "cleanup", expiredSeen |-> ExpiredIds, returned |-> 0]
    /\ UNCHANGED <<p_impl, now, nextId, held, tpc, chosen, treuse>>
    /\ UNCHANGED notPool

\* time passes
PoolTick ==
    /\ now < MaxTime
    /\ now' = now + 1
    /\ UNCHANGED <<p_impl, pool, nextId, held, tpc, chosen, treuse, provReleased, lastOp>>
    /\ UNCHANGED notPool

PoolNext ==
    \/ \E t \in Tasks, r \in BOOLEAN : CreateSession(t, r)
    \/ \E t \in Tasks : Claim(t)
    \/ \E t \in Tasks, ok \in BOOLEAN : CreateDone(t, ok)
    \/ \E t \in Tasks, id \in SessionIds : ClientRelease(t, id)
    \/ \E t \in Tasks, id \in SessionIds : ManagerRelease(t, id)
    \/ CleanupSessions
    \/ PoolTick


(***************************************************************************)
(* The screenshot cache of the agent, called directly:                     *)
(* _get_screenshot_with_cache(force_new) and _cache_screenshot, over the   *)
(* agent's cache, cacheAge and shots.                                      *)
(***************************************************************************)
NoGet == [kind |-> "none", force_new |-> FALSE, returned |-> 0, captured |-> FALSE,
          age |-> 0]

GetInit ==
    /\ g_prev = NoGet
    /\ g_last = NoGet

\* browser_session.screenshot() followed by _cache_screenshot
capture_and_cache(env) ==
    IF env = "ok" THEN Shot(shots + 1, TRUE) ELSE Raised("screenshot failed")

\* is the cached screenshot handed out?  (if not force_new: cached =
\* self._get_cached_screenshot(); if cached: return cached)
UseCache_never(force_new) == FALSE
UseCache(force_new) == ~force_new /\ CacheValid

\* _get_screenshot_with_cache(force_new)
get_screenshot(force_new, env) ==
    IF UseCache(force_new) THEN Shot(cache, FALSE) ELSE capture_and_cache(env)

\* one call of _get_screenshot_with_cache
GetScreenshot(force_new, env) ==
    LET out == get_screenshot(force_new, env)
    IN /\ out.captured => shots < MaxShots
       /\ IF out.raised
          THEN UNCHANGED <<cache, cacheAge, shots>>
          ELSE /\ cache' = out.shot
               /\ cacheAge' = IF out.captured THEN 0 ELSE cacheAge
               /\ shots' = IF out.captured THEN out.shot ELSE shots
       /\ g_prev' = g_last
       /\ g_last' = [kind |-> "get", force_new |-> force_new,
                     returned |-> IF out.raised THEN 0 ELSE out.shot,
                     captured |-> out.captured, age |-> cacheAge]
       /\ UNCHANGED <<impl, max_iterations, pc, iterations, retry_attempt, messages,
                      response, blockIdx, result, respCount, firstResponse,
                      requested, executed, lastSent, execAtSend, lastOutcome, modelCalls,
                      everSentinel, everModelError, everExecError>>
       /\ UNCHANGED notGet

\* the agent caches the screenshot an action returned
CacheActionShot ==
    /\ shots < MaxShots
    /\ shots' = shots + 1
    /\ cache' = shots + 1
    /\ cacheAge' = 0
    /\ g_prev' = NoGet
    /\ g_last' = NoGet
    /\ UNCHANGED <<impl, max_iterations, pc, iterations, retry_attempt, messages,
                   response, blockIdx, result, respCount, firstResponse,
                   requested, executed, lastSent, execAtSend, lastOutcome, modelCalls,
                   everSentinel, everModelError, everExecError>>
    /\ UNCHANGED notGet

\* time passes
GetTick ==
    /\ cacheAge < CACHE_DURATION
    /\ cacheAge' = cacheAge + 1
    /\ UNCHANGED <<impl, max_iterations, pc, iterations, retry_attempt, messages,
                   response, blockIdx, result, shots, cache, respCount,
                   firstResponse, requested, executed, lastSent, execAtSend,
                   lastOutcome, modelCalls, everSentinel, everModelError, everExecError>>
    /\ UNCHANGED <<notGet, getVars>>

GetNext ==
    \/ \E f \in BOOLEAN, env \in {"ok", "error"} : GetScreenshot(f, env)
    \/ CacheActionShot
    \/ GetTick

(***************************************************************************)
(* The pure functions, called directly: _handle_rate_limit_error and the   *)
(* two coordinate clamps.  f_args are the arguments (for the backoff the   *)
(* jitter random.uniform draws is the third), f_ret the returned value as  *)
(* a sequence, <<>> for None.                                              *)
(***************************************************************************)
\* SteelBrowserSession.clamp_coordinates
clamp_coordinates_no_floor(x, y, width, height) ==
    <<Min(x, width - 1), Min(y, height - 1)>>
clamp_coordinates(x, y, width, height) ==
    <<Max(0, Min(x, width - 1)), Max(0, Min(y, height - 1))>>

\* SteelBrowser._clamp_coords
clamp_coords(x, y, width, height) ==
    <<Max(0, Min(x, width - 1)), Max(0, Min(y, height - 1))>>

Attempts == 0..MaxAttempt
Coords == (0 - MaxCoord)..MaxCoord
Dims == 1..MaxDim

FunCalls ==
    [fn : {"_handle_rate_limit_error"}, args : Attempts \X Attempts \X Jitters]
    \cup [fn : {"clamp_coordinates", "_clamp_coords"},
          args : Coords \X Coords \X Dims \X Dims]

FunIdle ==
    /\ f_call = [fn |-> "none", args |-> <<>>]
    /\ f_pc = "idle"
    /\ f_ret = <<>>
    /\ f_first = <<>>

FunInit ==
    /\ f_call \in FunCalls
    /\ f_pc = "called"
    /\ f_ret = <<>>
    /\ f_first = <<>>

Apply(fn, a) ==
    IF fn = "_handle_rate_limit_error"
    THEN LET d == handle_rate_limit_error(a[1], a[2], a[3])
         IN IF d = NoDelay THEN <<>> ELSE <<d>>
    ELSE IF fn = "clamp_coordinates"
    THEN clamp_coordinates(a[1], a[2], a[3], a[4])
    ELSE clamp_coords(a[1], a[2], a[3], a[4])

\* _handle_rate_limit_error(attempt, max_retries) returns
BackoffReturns ==
    /\ f_pc = "called"
    /\ f_call.fn = "_handle_rate_limit_error"
    /\ f_ret' = Apply(f_call.fn, f_call.args)
    /\ f_pc' = "returned"
    /\ UNCHANGED <<f_call, f_first>>
    /\ UNCHANGED notFun

\* clamp_coordinates(x, y) / _clamp_coords((x, y)) returns
ClampReturns ==
    /\ f_pc = "called"
    /\ f_call.fn # "_handle_rate_limit_error"
    /\ f_ret' = Apply(f_call.fn, f_call.args)
    /\ f_pc' = "returned"
    /\ UNCHANGED <<f_call, f_first>>
    /\ UNCHANGED notFun

\* the clamp is called again on the point it returned
ClampAgain ==
    /\ f_pc = "returned"
    /\ f_call.fn # "_handle_rate_limit_error"
    /\ f_first' = f_ret
    /\ f_ret' = Apply(f_call.fn, <<f_ret[1], f_ret[2], f_call.args[3], f_call.args[4]>>)
    /\ f_pc' = "reapplied"
    /\ UNCHANGED f_call
    /\ UNCHANGED notFun

FunNext ==
    \/ BackoffReturns
    \/ ClampReturns
    \/ ClampAgain

(***************************************************************************)
(* The action executors, called directly:                                  *)
(* SteelBrowserSession.execute_computer_action ("session"; the async class *)
(* has the same branches) and SteelBrowser.execute_action ("simple").      *)
(* A call of the page object is a record; the page turns the calls into    *)
(* input events.  A text is a sequence of tokens, a key name or "+".       *)
(***************************************************************************)
NoText == [some |-> FALSE, v |-> <<>>]
Text(v) == [some |-> TRUE, v |-> v]
NoCoord == <<>>
NoKey == ""
NoAmount == [t |-> "none", v |-> 0]
Amount(t, v) == [t |-> t, v |-> v]

Call(op, k, x, y) == [op |-> op, key |-> k, x |-> x, y |-> y]
NoErr == [kind |-> "none", msg |-> <<>>]
Err(kind, msg) == [kind |-> kind, msg |-> msg]
\* the calls a handler makes in order, and the error it raises after them
Plan(err, calls) == [error |-> err, calls |-> calls]
Rejects(msg) == Plan(Err("ValueError", msg), <<>>)

\* the viewport of the executors
dimensions == <<MaxDim, MaxDim - 1>>
FarCoord == <<MaxDim + 2, 1>>

\* ---- key names
PLUS == "+"
HasPlus(t) == \E i \in 1..Len(t) : t[i] = PLUS

\* str.split("+") on a text whose tokens are key names and "+"
RECURSIVE Split(_)
Split(t) ==
    IF t = <<>> THEN <<>>
    ELSE IF Head(t) = PLUS THEN Split(Tail(t))
    ELSE <<Head(t)>> \o Split(Tail(t))

\* "+".join(keys)
RECURSIVE Join(_)
Join(keys) ==
    IF Len(keys) <= 1 THEN keys
    ELSE <<Head(keys), PLUS>> \o Join(Tail(keys))

RECURSIVE Reverse(_)
Reverse(s) == IF s = <<>> THEN <<>> ELSE Reverse(Tail(s)) \o <<Head(s)>>

\* mod.lower()
Lower(k) ==
    CASE k = "Ctrl" -> "ctrl"
      [] k = "Shift" -> "shift"
      [] k = "Return" -> "return"
      [] k = "Tab" -> "tab"
      [] OTHER -> k

\* the modifier aliases of execute_computer_action
session_modifier(mod) ==
    CASE Lower(mod) \in {"ctrl", "control"} -> "Control"
      [] Lower(mod) \in {"shift"} -> "Shift"
      [] Lower(mod) \in {"alt", "option"} -> "Alt"
      [] Lower(mod) \in {"cmd", "meta", "super"} -> "Meta"
      [] OTHER -> mod

\* CUA_KEY_TO_PLAYWRIGHT_KEY, on the key names of KeyTexts
CUA_KEY_TO_PLAYWRIGHT_KEY(k) ==
    CASE k = "alt" -> "Alt"
      [] k = "cmd" -> "Meta"
      [] k = "ctrl" -> "Control"
      [] k = "shift" -> "Shift"
      [] k = "option" -> "Alt"
      [] k = "tab" -> "Tab"
      [] k = "Return" -> "Enter"
      [] k = "Tab" -> "Tab"
      [] OTHER -> k

\* KEY_MAPPINGS.get(k, k), on the key names of KeyTexts
KEY_MAPPINGS(k) ==
    CASE k = "Return" -> "Enter"
      [] k = "return" -> "Enter"
      [] k = "cmd" -> "Meta"
      [] k = "ctrl" -> "Control"
      [] k = "Ctrl" -> "Control"
      [] k = "alt" -> "Alt"
      [] k = "shift" -> "Shift"
      [] k = "Shift" -> "Shift"
      [] k = "tab" -> "Tab"
      [] k = "Tab" -> "Tab"
      [] OTHER -> k

MapSeq(Op(_), s) == [i \in 1..Len(s) |-> Op(s[i])]
Front(s) == SubSeq(s, 1, Len(s) - 1)
Last(s) == s[Len(s)]

\* ---- what the page does with a call: keyboard.press of "A+B+c" holds A
\* and B down in that order, presses c and releases B, then A
Ev(op, k, x, y) == [op |-> op, key |-> k, x |-> x, y |-> y]

keyboard_press(t) ==
    LET parts == Split(t)
    IN IF parts = <<>> THEN <<>>
       ELSE [i \in 1..Len(parts) - 1 |-> Ev("down", parts[i], 0, 0)]
            \o <<Ev("press", Last(parts), 0, 0)>>
            \o [i \in 1..Len(parts) - 1 |-> Ev("up", parts[Len(parts) - i], 0, 0)]

Emit(c) ==
    CASE c.op = "keyboard.press" -> keyboard_press(c.key)
      [] c.op = "keyboard.down" -> <<Ev("down", c.key[1], 0, 0)>>
      [] c.op = "keyboard.up" -> <<Ev("up", c.key[1], 0, 0)>>
      [] c.op = "keyboard.type" -> <<Ev("type", "", Len(c.key), 0)>>
      [] c.op = "mouse.move" -> <<Ev("move", "", c.x, c.y)>>
      [] c.op = "mouse.click" -> <<Ev("click", c.key[1], c.x, c.y)>>
      [] c.op = "mouse.dblclick" -> <<Ev("dblclick", "left", c.x, c.y)>>
      [] c.op = "mouse.wheel" -> <<Ev("wheel", "", c.x, c.y)>>
      [] c.op = "mouse.down" -> <<Ev("mouse_down", "", 0, 0)>>
      [] c.op = "mouse.up" -> <<Ev("mouse_up", "", 0, 0)>>
      [] c.op = "time.sleep" -> <<Ev("sleep", "", c.x, 0)>>
      [] OTHER -> <<Ev("screenshot", "", 0, 0)>>

RECURSIVE EmitAll(_)
EmitAll(cs) == IF cs = <<>> THEN <<>> ELSE Emit(Head(cs)) \o EmitAll(Tail(cs))

ScreenshotCall == Call("screenshot", <<>>, 0, 0)
Move(p) == Call("mouse.move", <<>>, p[1], p[2])
Down(k) == Call("keyboard.down", <<k>>, 0, 0)
Up(k) == Call("keyboard.up", <<k>>, 0, 0)

\* left_click_drag to p: mouse.down(), mouse.move(x, y), mouse.up(); the
\* position is remembered after mouse.up() has returned, so that call carries it
DragCalls(p) ==
    <<Call("mouse.down", <<>>, 0, 0), Call("mouse.move", <<"drag">>, p[1], p[2]),
      Call("mouse.up", <<"drag">>, p[1], p[2])>>

\* the click calls of one pointer-button action at p
ClickCalls(action, p) ==
    CASE action = "left_click" -> <<Call("mouse.click", <<"left">>, p[1], p[2])>>
      [] action = "right_click" -> <<Call("mouse.click", <<"right">>, p[1], p[2])>>
      [] action = "double_click" -> <<Call("mouse.dblclick", <<>>, p[1], p[2])>>
      [] action = "triple_click" -> [i \in 1..3 |-> Call("mouse.click", <<"left">>, p[1], p[2])]
      [] OTHER -> <<Call("mouse.click", <<"middle">>, p[1], p[2])>>

Sleep(a) == Call("time.sleep", <<>>, IF a.t = "float" THEN a.v ELSE 10 * a.v, 0)
\* the calls of the page among cs
PageCalls(cs) == SelectSeq(cs, LAMBDA c : c.op # "time.sleep")

\* isinstance(duration, (int, float))
IsNumber(a) == a.t \in {"int", "float", "bool"}
\* duration > 100, a float duration being kept in tenths
Over100(a) == IF a.t = "float" THEN a.v > 1000 ELSE a.v > 100

\* isinstance(scroll_amount, int): a bool is an int
IsInt(a) == a.t \in {"int", "bool"}
\* 100 * amount; a float amount is kept in tenths
Times100(a) == IF a.t = "float" THEN 10 * a.v ELSE 100 * a.v

ScrollDirections == {"up", "down", "left", "right"}

\* scroll_mapping of execute_computer_action
scroll_mapping(d, a) ==
    CASE d = "down" -> <<0, 100 * a.v>>
      [] d = "up" -> <<0, 0 - 100 * a.v>>
      [] d = "right" -> <<100 * a.v, 0>>
      [] OTHER -> <<0 - 100 * a.v, 0>>

\* delta_map.get(direction, (0, 100)) of execute_action
delta_map(d, a) ==
    CASE d = "up" -> <<0, 0 - Times100(a)>>
      [] d = "down" -> <<0, Times100(a)>>
      [] d = "left" -> <<0 - Times100(a), 0>>
      [] d = "right" -> <<Times100(a), 0>>
      [] OTHER -> <<0, 100>>

ClickActions == {"left_click", "right_click", "double_click", "triple_click", "middle_click"}

\* the test of validate_and_get_coordinates on a pair of ints
IsValidCoordinate(c) == c[1] >= 0 /\ c[2] >= 0
RejectsCoordinate == Rejects(<<"must be a tuple/list of non-negative ints">>)

\* the left_mouse_down / left_mouse_up branch.  In AsyncSteelBrowserSession
\* the "return await self.screenshot()" of this branch stands in the except
\* clause behind the raise, so the method goes on after the mouse call, meets
\* no other branch and ends in "Invalid action"
MouseButtonActions == {"left_mouse_down", "left_mouse_up"}
MouseButtonCall(action) ==
    Call(IF action = "left_mouse_down" THEN "mouse.down" ELSE "mouse.up", <<>>, 0, 0)
mouse_button_plan_async(action, coordinate) ==
    IF coordinate # NoCoord
    THEN Rejects(<<"coordinate is not accepted for", action>>)
    ELSE Plan(Err("ValueError", <<"Invalid action:", action>>), <<MouseButtonCall(action)>>)
\* the same branch with the coordinate test after the mouse call
mouse_button_plan_late_check(action, coordinate) ==
    IF coordinate # NoCoord
    THEN Plan(Err("ValueError", <<"coordinate is not accepted for", action>>),
              <<MouseButtonCall(action)>>)
    ELSE Plan(NoErr, <<MouseButtonCall(action), ScreenshotCall>>)
mouse_button_plan(action, coordinate) ==
    IF coordinate # NoCoord
    THEN Rejects(<<"coordinate is not accepted for", action>>)
    ELSE Plan(NoErr, <<MouseButtonCall(action), ScreenshotCall>>)

\* validate_and_get_coordinates on a pair of non-negative ints
validate_and_get_coordinates_unclamped(c) == c
validate_and_get_coordinates(c) ==
    clamp_coordinates(c[1], c[2], dimensions[1], dimensions[2])

\* the press_key execute_computer_action builds from the text of a key action
session_press_key(t) ==
    IF HasPlus(t)
    THEN LET key_parts == Split(t)
         IN Join(MapSeq(session_modifier, Front(key_parts))
                 \o <<CUA_KEY_TO_PLAYWRIGHT_KEY(Last(key_parts))>>)
    ELSE MapSeq(CUA_KEY_TO_PLAYWRIGHT_KEY, t)

\* SteelBrowserSession.execute_computer_action(action, text, coordinate,
\* scroll_direction, scroll_amount, key) with _last_mouse_position = pos
execute_computer_action_plan(inp, pos, closed) ==
    LET action == inp.action
        text == inp.text
        coordinate == inp.coordinate
        moves == IF coordinate = NoCoord THEN <<>>
                 ELSE <<Move(validate_and_get_coordinates(coordinate))>>
    IN IF closed
       THEN Plan(Err("RuntimeError", <<"Browser session has been closed">>), <<>>)
       ELSE IF action \in MouseButtonActions
       THEN mouse_button_plan(action, coordinate)
       ELSE IF action = "scroll"
       THEN IF inp.scroll_direction \notin ScrollDirections
            THEN Rejects(<<"scroll_direction must be 'up', 'down', 'left', or 'right'">>)
            ELSE IF inp.scroll_amount.t = "none" \/ ~IsInt(inp.scroll_amount)
                    \/ inp.scroll_amount.v < 0
            THEN Rejects(<<"scroll_amount must be a non-negative int">>)
            ELSE IF coordinate # NoCoord /\ ~IsValidCoordinate(coordinate)
            THEN RejectsCoordinate
            ELSE LET with_modifier == text.some /\ text.v # <<>>
                     modifier_key == IF with_modifier THEN CUA_KEY_TO_PLAYWRIGHT_KEY(text.v[1]) ELSE NoKey
                     d == scroll_mapping(inp.scroll_direction, inp.scroll_amount)
                 IN Plan(NoErr,
                         moves
                         \o (IF with_modifier THEN <<Down(modifier_key)>> ELSE <<>>)
                         \o <<Call("mouse.wheel", <<>>, d[1], d[2])>>
                         \o (IF with_modifier THEN <<Up(modifier_key)>> ELSE <<>>)
                         \o <<ScreenshotCall>>)
       ELSE IF action \in {"hold_key", "wait"}
       THEN IF inp.duration.t = "none" \/ ~IsNumber(inp.duration)
            THEN Rejects(<<"duration must be a number">>)
            ELSE IF inp.duration.v < 0
            THEN Rejects(<<"duration must be non-negative">>)
            ELSE IF Over100(inp.duration)
            THEN Rejects(<<"duration is too long">>)
            ELSE IF action = "hold_key"
            THEN IF ~text.some
                 THEN Rejects(<<"text is required for hold_key">>)
                 ELSE LET hold_key == IF text.v = <<>> THEN NoKey
                                      ELSE CUA_KEY_TO_PLAYWRIGHT_KEY(text.v[1])
                      IN Plan(NoErr, <<Down(hold_key), Sleep(inp.duration), Up(hold_key),
                                       ScreenshotCall>>)
            ELSE Plan(NoErr, <<Sleep(inp.duration), ScreenshotCall>>)
       ELSE IF action \in ClickActions
       THEN IF text.some
            THEN Rejects(<<"text is not accepted for", action>>)
            ELSE IF coordinate # NoCoord /\ ~IsValidCoordinate(coordinate)
            THEN RejectsCoordinate
            ELSE LET p == IF coordinate # NoCoord
                          THEN validate_and_get_coordinates(coordinate)
                          ELSE IF pos # NoCoord THEN pos
                          ELSE <<dimensions[1] \div 2, dimensions[2] \div 2>>
                     with_modifier == inp.key # NoKey
                     modifier_key == CUA_KEY_TO_PLAYWRIGHT_KEY(inp.key)
                 IN Plan(NoErr,
                         moves
                         \o (IF with_modifier THEN <<Down(modifier_key)>> ELSE <<>>)
                         \o ClickCalls(action, p)
                         \o (IF with_modifier THEN <<Up(modifier_key)>> ELSE <<>>)
                         \o <<ScreenshotCall>>)
       ELSE IF action \in {"mouse_move", "left_click_drag"}
       THEN IF coordinate = NoCoord
            THEN Rejects(<<"coordinate is required for", action>>)
            ELSE IF text.some
            THEN Rejects(<<"text is not accepted for", action>>)
            ELSE IF ~IsValidCoordinate(coordinate)
            THEN RejectsCoordinate
            ELSE IF action = "mouse_move"
            THEN Plan(NoErr, moves \o <<ScreenshotCall>>)
            ELSE Plan(NoErr, DragCalls(validate_and_get_coordinates(coordinate))
                             \o <<ScreenshotCall>>)
       ELSE IF action \in {"key", "type"}
       THEN IF ~text.some
            THEN Rejects(<<"text is required for", action>>)
            ELSE IF coordinate # NoCoord
            THEN Rejects(<<"coordinate is not accepted for", action>>)
            ELSE IF action = "key"
            THEN Plan(NoErr, <<Call("keyboard.press", session_press_key(text.v), 0, 0),
                               ScreenshotCall>>)
            ELSE Plan(NoErr, (IF text.v = <<>> THEN <<>>
                              ELSE <<Call("keyboard.type", text.v, 0, 0)>>)
                             \o <<ScreenshotCall>>)
       ELSE IF action \in {"screenshot", "cursor_position"}
       THEN IF text.some
            THEN Rejects(<<"text is not accepted for", action>>)
            ELSE IF coordinate # NoCoord
            THEN Rejects(<<"coordinate is not accepted for", action>>)
            ELSE Plan(NoErr, <<ScreenshotCall>>)
       ELSE Rejects(<<"Invalid action:", action>>)

\* AsyncSteelBrowserSession.execute_computer_action: the text of the sync
\* method with awaits, but for the left_mouse_down / left_mouse_up branch
execute_computer_action_plan_async(inp, pos, closed) ==
    IF ~closed /\ inp.action \in MouseButtonActions
    THEN mouse_button_plan_async(inp.action, inp.coordinate)
    ELSE execute_computer_action_plan(inp, pos, closed)

\* SteelBrowser.execute_action(action, coordinate, text, key,
\* scroll_direction=..., scroll_amount=...) as ClaudeAgent calls it
execute_action_plan(inp) ==
    LET action == inp.action
        text == inp.text
        coordinate == inp.coordinate
        truthy == text.some /\ text.v # <<>>
        p == IF coordinate = NoCoord THEN NoCoord
             ELSE clamp_coords(coordinate[1], coordinate[2], dimensions[1], dimensions[2])
        moves == IF coordinate = NoCoord THEN <<>> ELSE <<Move(p)>>
    IN IF action \in ClickActions \ {"triple_click"}
       THEN Plan(NoErr, (IF coordinate = NoCoord THEN <<>>
                         ELSE moves \o ClickCalls(action, p))
                        \o <<ScreenshotCall>>)
       ELSE IF action = "type" /\ truthy
       THEN Plan(NoErr, <<Call("keyboard.type", text.v, 0, 0), ScreenshotCall>>)
       ELSE IF action = "key" /\ truthy
       THEN IF HasPlus(text.v)
            THEN LET key_parts == Split(text.v)
                     modifier_keys == MapSeq(KEY_MAPPINGS, Front(key_parts))
                     main_key == KEY_MAPPINGS(Last(key_parts))
                 IN Plan(NoErr,
                         MapSeq(Down, modifier_keys)
                         \o <<Call("keyboard.press", <<main_key>>, 0, 0)>>
                         \o MapSeq(Up, Reverse(modifier_keys))
                         \o <<ScreenshotCall>>)
            ELSE Plan(NoErr, <<Call("keyboard.press", MapSeq(KEY_MAPPINGS, text.v), 0, 0),
                               ScreenshotCall>>)
       ELSE IF action = "scroll"
       THEN IF inp.scroll_amount.t = "none"
            THEN Plan(Err("TypeError", <<"unsupported operand type(s) for *">>), moves)
            ELSE LET d == delta_map(inp.scroll_direction, inp.scroll_amount)
                 IN Plan(NoErr, moves \o <<Call("mouse.wheel", <<>>, d[1], d[2]),
                                           ScreenshotCall>>)
       ELSE IF action = "mouse_move" /\ coordinate # NoCoord
       THEN Plan(NoErr, moves \o <<ScreenshotCall>>)
       ELSE IF action = "wait"
       THEN IF ~IsNumber(inp.duration)
            THEN Plan(Err("TypeError", <<"'<=' not supported">>), <<>>)
            ELSE Plan(NoErr, <<Sleep(inp.duration), ScreenshotCall>>)
       ELSE Plan(NoErr, <<ScreenshotCall>>)

\* ---- the inputs
KeyTexts == {<<"ctrl", PLUS, "shift", PLUS, "a">>, <<"cmd", PLUS, "t">>,
             <<"Ctrl", PLUS, "alt", PLUS, "Tab">>, <<"Return">>}
Amounts == {NoAmount, Amount("int", 0 - 1), Amount("int", 0), Amount("int", 3),
            Amount("bool", 1), Amount("float", 25)}
Input(a, t, c, d, n, k) ==
    [action |-> a, text |-> t, coordinate |-> c, scroll_direction |-> d,
     scroll_amount |-> n, key |-> k, duration |-> NoAmount]
WithDuration(inp, dur) ==
    [f \in DOMAIN inp |-> IF f = "duration" THEN dur ELSE inp[f]]
Durations == {NoAmount, Amount("str", 0), Amount("int", 0 - 1), Amount("int", 0),
              Amount("int", 2), Amount("float", 25), Amount("int", 100),
              Amount("int", 101)}
UnknownActions == {"click", "hover"}
NegCoord == <<0 - 1, 1>>

ActionInputs ==
    {Input("scroll", t, c, d, n, NoKey) :
        t \in {NoText, Text(<<"shift">>)}, c \in {NoCoord, <<1, 1>>},
        d \in ScrollDirections \cup {None, "diagonal"}, n \in Amounts}
    \cup {Input(a, t, c, None, NoAmount, k) :
        a \in ClickActions, t \in {NoText, Text(<<"a">>)},
        c \in {NoCoord, <<1, 1>>, FarCoord}, k \in {NoKey, "shift"}}
    \cup {Input("key", t, NoCoord, None, NoAmount, NoKey) :
        t \in {NoText} \cup {Text(v) : v \in KeyTexts}}
    \cup {Input("type", t, NoCoord, None, NoAmount, NoKey) :
        t \in {NoText, Text(<<"h", "i">>)}}
    \cup {Input(a, NoText, c, None, NoAmount, NoKey) :
        a \in {"mouse_move", "screenshot"} \cup UnknownActions, c \in {NoCoord, <<1, 1>>}}
    \cup {WithDuration(Input(a, t, NoCoord, None, NoAmount, NoKey), dur) :
        a \in {"hold_key", "wait"}, t \in {NoText, Text(<<"shift">>)}, dur \in Durations}
    \cup {Input(a, NoText, c, None, NoAmount, NoKey) :
        a \in MouseButtonActions \cup {"left_click_drag", "cursor_position"},
        c \in {NoCoord, <<1, 1>>, FarCoord}}
    \cup {Input(a, NoText, NegCoord, None, NoAmount, NoKey) :
        a \in {"left_click", "mouse_move", "left_click_drag"}}
    \cup {Input("scroll", NoText, NegCoord, "down", Amount("int", 3), NoKey)}

NoInput == Input("none", NoText, NoCoord, None, NoAmount, NoKey)

ExecIdle ==
    /\ x_impl = "session"
    /\ x_in = NoInput
    /\ x_closed = FALSE
    /\ x_pos = NoCoord
    /\ x_events = <<>>
    /\ x_ncalls = 0
    /\ x_error = NoErr

ExecInit ==
    /\ x_impl \in {"session", "async", "simple"}
    /\ x_in = NoInput
    /\ x_closed = FALSE
    /\ x_pos = NoCoord
    /\ x_events = <<>>
    /\ x_ncalls = 0
    /\ x_error = NoErr

\* the position _last_mouse_position holds after the calls cs
RECURSIVE PosAfter(_, _)
PosAfter(pos, cs) ==
    IF cs = <<>> THEN pos
    ELSE PosAfter(IF \/ Head(cs).op = "mouse.move" /\ Head(cs).key = <<>>
                     \/ Head(cs).op = "mouse.up" /\ Head(cs).key = <<"drag">>
                  THEN <<Head(cs).x, Head(cs).y>> ELSE pos,
                  Tail(cs))

\* one call of the executor; the page closes before it (closed), or the
\* fail_at-th call of the page raises, or every call succeeds (fail_at = 0)
ExecuteCall(inp, closed, fail_at) ==
    LET plan == CASE x_impl = "session" -> execute_computer_action_plan(inp, x_pos, closed)
                  [] x_impl = "async" -> execute_computer_action_plan_async(inp, x_pos, closed)
                  [] OTHER -> execute_action_plan(inp)
        fails == /\ fail_at \in 1..Len(plan.calls)
                 /\ plan.calls[fail_at].op # "time.sleep"
        made == IF fails THEN SubSeq(plan.calls, 1, fail_at - 1) ELSE plan.calls
    IN /\ closed => (x_impl # "simple" /\ fail_at = 0)
       /\ fail_at > 0 => fails
       /\ x_in' = inp
       /\ x_closed' = closed
       /\ x_events' = EmitAll(made)
       /\ x_ncalls' = Len(PageCalls(made)) + (IF fails THEN 1 ELSE 0)
       /\ x_error' = IF fails THEN Err("PlaywrightError", <<"call failed">>) ELSE plan.error
       /\ x_pos' = IF x_impl # "simple" THEN PosAfter(x_pos, made) ELSE x_pos
       /\ UNCHANGED x_impl
       /\ UNCHANGED notExec

ExecNext ==
    \E inp \in ActionInputs, closed \in BOOLEAN, fail_at \in 0..MaxFail :
        ExecuteCall(inp, closed, fail_at)

\* ---------------------------------------------------------------------------
\* CircuitBreaker (utils/retry.py)
\* ---------------------------------------------------------------------------

\* last_failure_time before any failure
NoTime == -1

\* CircuitBreaker.__init__
CircuitBreaker(threshold, timeout) ==
    [failure_threshold |-> threshold, recovery_timeout |-> timeout,
     failure_count |-> 0, last_failure_time |-> NoTime, state |-> "closed"]

should_attempt_reset_always(b, t) == b.state = "open"
should_attempt_reset_never(b, t) == FALSE
\* CircuitBreaker._should_attempt_reset at time t
should_attempt_reset(b, t) ==
    IF b.state # "open" THEN FALSE
    ELSE IF b.last_failure_time = NoTime THEN TRUE
    ELSE t - b.last_failure_time >= b.recovery_timeout

\* the head of call / async_call: the circuit is open and stays shut
Rejected(b, t) == b.state = "open" /\ ~should_attempt_reset(b, t)

\* "if self.state == 'open': self.state = 'half-open'"
Entered(b) == IF b.state = "open" THEN [b EXCEPT !.state = "half-open"] ELSE b

\* the wrapped function returned
OnSuccess(b) == [b EXCEPT !.failure_count = 0, !.state = "closed"]

\* the wrapped function raised expected_exception at time t
OnFailure(b, t) ==
    [b EXCEPT !.failure_count = b.failure_count + 1,
              !.last_failure_time = t,
              !.state = IF b.failure_count + 1 >= b.failure_threshold
                        THEN "open" ELSE "closed"]

\* what the wrapped function did: it returned, raised expected_exception, or
\* raised an exception of another type, which passes through untouched
Outcomes == {"success", "failure", "other"}
Completed(b, t, outcome) ==
    CASE outcome = "success" -> OnSuccess(b)
      [] outcome = "failure" -> OnFailure(b, t)
      [] OTHER -> b

Streak(n, outcome) ==
    CASE outcome = "success" -> 0
      [] outcome = "failure" -> n + 1
      [] OTHER -> n

NoCall == [via |-> "none", outcome |-> "none"]

BreakerInit ==
    /\ \E threshold \in 1..MaxThreshold, timeout \in 0..MaxTimeout :
           cb = CircuitBreaker(threshold, timeout)
    /\ cb_time = 0
    /\ cb_attempts = 0
    /\ cb_invoked = 0
    /\ cb_inflight = 0
    /\ cb_streak = 0
    /\ cb_last = NoCall

BreakerIdle ==
    /\ cb = CircuitBreaker(1, 0)
    /\ cb_time = 0
    /\ cb_attempts = 0
    /\ cb_invoked = 0
    /\ cb_inflight = 0
    /\ cb_streak = 0
    /\ cb_last = NoCall

\* CircuitBreaker.call(func): runs to its end in one step
BreakerCall(outcome) ==
    /\ cb_attempts < MaxCalls
    /\ cb_attempts' = cb_attempts + 1
    /\ IF Rejected(cb, cb_time)
       THEN /\ cb_last' = [via |-> "call", outcome |-> "rejected"]
            /\ UNCHANGED <<cb, cb_invoked, cb_streak>>
       ELSE /\ cb' = Completed(Entered(cb), cb_time, outcome)
            /\ cb_invoked' = cb_invoked + 1
            /\ cb_streak' = Streak(cb_streak, outcome)
            /\ cb_last' = [via |-> "call", outcome |-> outcome]
    /\ UNCHANGED <<cb_time, cb_inflight>>
    /\ UNCHANGED notBreaker

\* CircuitBreaker.async_call(func) up to "await func(...)"
AsyncCallBegin ==
    /\ cb_attempts < MaxCalls
    /\ cb_inflight < MaxInFlight
    /\ cb_attempts' = cb_attempts + 1
    /\ IF Rejected(cb, cb_time)
       THEN /\ cb_last' = [via |-> "async_call", outcome |-> "rejected"]
            /\ UNCHANGED <<cb, cb_invoked, cb_inflight>>
       ELSE /\ cb' = Entered(cb)
            /\ cb_invoked' = cb_invoked + 1
            /\ cb_inflight' = cb_inflight + 1
            /\ cb_last' = [via |-> "async_call", outcome |-> "awaiting"]
    /\ UNCHANGED <<cb_time, cb_streak>>
    /\ UNCHANGED notBreaker

\* CircuitBreaker.async_call(func) from the point the awaited call ends
AsyncCallEnd(outcome) ==
    /\ cb_inflight > 0
    /\ cb_inflight' = cb_inflight - 1
    /\ cb' = Completed(cb, cb_time, outcome)
    /\ cb_streak' = Streak(cb_streak, outcome)
    /\ cb_last' = [via |-> "async_call", outcome |-> outcome]
    /\ UNCHANGED <<cb_time, cb_attempts, cb_invoked>>
    /\ UNCHANGED notBreaker

\* time.time() advances
BreakerTick ==
    /\ cb_time < MaxClock
    /\ cb_time' = cb_time + 1
    /\ UNCHANGED <<cb, cb_attempts, cb_invoked, cb_inflight, cb_streak, cb_last>>
    /\ UNCHANGED notBreaker

BreakerNext ==
    \/ \E outcome \in Outcomes : BreakerCall(outcome)
    \/ AsyncCallBegin
    \/ \E outcome \in Outcomes : AsyncCallEnd(outcome)
    \/ BreakerTick

\* ---------------------------------------------------------------------------
\* SteelBrowserAgent._execute_browser_task and its async twin
\* (agents/browser_agent.py)
\* ---------------------------------------------------------------------------

\* session ids; 0 stands for None
TaskSessionIds == 1..MaxTaskSessions
Formats == {"json", "structured", "text"}

\* _get_existing_session / _get_existing_session_async: always None
get_existing_session(id) == 0

\* "if not session_id" in the except clause: ids are non-empty strings
not_session_id(id) == id = 0

\* where the body of the try statement may raise
Faults == {"none", "on_text", "automation", "format"}

TaskInit ==
    /\ bt_impl \in {"sync", "async"}
    /\ bt_pc = "idle"
    /\ bt_arg = 0
    /\ bt_session_id = 0
    /\ bt_session = 0
    /\ bt_format = "text"
    /\ bt_created = {}
    /\ bt_released = {}
    /\ bt_outcome = "none"

TaskIdle == TaskInit /\ bt_impl = "sync"

\* the head of _execute_browser_task: look the session up or create one
BrowserTaskStart(arg, fmt, create_ok) ==
    /\ bt_pc \in {"idle", "returned", "raised"}
    /\ Cardinality(bt_created) < MaxTaskSessions
    /\ bt_arg' = arg
    /\ bt_format' = fmt
    /\ IF arg # 0
       THEN /\ bt_session' = get_existing_session(arg)
            /\ bt_session_id' = arg
            /\ bt_pc' = IF bt_session' = 0 THEN "raised" ELSE "run"
            /\ bt_outcome' = IF bt_session' = 0 THEN "not_found" ELSE "none"
            /\ UNCHANGED bt_created
       ELSE IF create_ok
       THEN /\ bt_session' = Cardinality(bt_created) + 1
            /\ bt_session_id' = bt_session'
            /\ bt_created' = bt_created \cup {bt_session'}
            /\ bt_pc' = "run"
            /\ bt_outcome' = "none"
       ELSE /\ bt_session' = 0
            /\ bt_session_id' = 0
            /\ bt_pc' = "raised"
            /\ bt_outcome' = "create_failed"
            /\ UNCHANGED bt_created
    /\ UNCHANGED <<bt_impl, bt_released>>
    /\ UNCHANGED notTask

\* the try statement: the task runs and returns, or raises and the except
\* clause decides about the release
BrowserTaskRun(fault) ==
    /\ bt_pc = "run"
    /\ IF fault = "none"
       THEN /\ bt_pc' = "returned"
            /\ bt_outcome' = "result"
            /\ UNCHANGED bt_released
       ELSE /\ bt_pc' = "raised"
            /\ bt_outcome' = fault
            /\ bt_released' = IF not_session_id(bt_session_id)
                              THEN bt_released \cup {bt_session}
                              ELSE bt_released
    /\ UNCHANGED <<bt_impl, bt_arg, bt_session_id, bt_session, bt_format, bt_created>>
    /\ UNCHANGED notTask

TaskNext ==
    \/ \E arg \in 0..MaxTaskSessions, fmt \in Formats, create_ok \in BOOLEAN :
           BrowserTaskStart(arg, fmt, create_ok)
    \/ \E fault \in Faults : BrowserTaskRun(fault)

\* each part runs with the others at rest
InitLoop == LoopInit /\ SessIdle /\ PoolIdle /\ GetInit /\ FunIdle /\ ExecIdle /\ NavInit /\ BreakerIdle /\ TaskIdle
InitSession == LoopIdle /\ SessInit /\ PoolIdle /\ GetInit /\ FunIdle /\ ExecIdle /\ NavInit /\ BreakerIdle /\ TaskIdle
InitPool == LoopIdle /\ SessIdle /\ PoolInit /\ GetInit /\ FunIdle /\ ExecIdle /\ NavInit /\ BreakerIdle /\ TaskIdle
InitGet == LoopIdle /\ SessIdle /\ PoolIdle /\ GetInit /\ FunIdle /\ ExecIdle /\ NavInit /\ BreakerIdle /\ TaskIdle
InitFun == LoopIdle /\ SessIdle /\ PoolIdle /\ GetInit /\ FunInit /\ ExecIdle /\ NavInit /\ BreakerIdle /\ TaskIdle
InitExec == LoopIdle /\ SessIdle /\ PoolIdle /\ GetInit /\ FunIdle /\ ExecInit /\ NavInit /\ BreakerIdle /\ TaskIdle
InitTask == LoopIdle /\ SessIdle /\ PoolIdle /\ GetInit /\ FunIdle /\ ExecIdle /\ NavInit /\ BreakerIdle /\ TaskInit
InitBreaker == LoopIdle /\ SessIdle /\ PoolIdle /\ GetInit /\ FunIdle /\ ExecIdle /\ NavInit /\ BreakerInit /\ TaskIdle

SpecLoop == InitLoop /\ [][LoopNext]_vars
\* execute_task runs in one thread that keeps taking its next step
SpecLoopLive == InitLoop /\ [][LoopNext]_vars /\ WF_vars(LoopNext)
SpecSession == InitSession /\ [][SessNext]_vars
SpecPool == InitPool /\ [][PoolNext]_vars
SpecGet == InitGet /\ [][GetNext]_vars
SpecFun == InitFun /\ [][FunNext]_vars
SpecExec == InitExec /\ [][ExecNext]_vars
SpecBreaker == InitBreaker /\ [][BreakerNext]_vars
SpecTask == InitTask /\ [][TaskNext]_vars

(***************************************************************************)
(* Claims about the agent loop.                                            *)
(***************************************************************************)
IsCompletedBlock(b) == b.type = "text" /\ Contains(b.text, "TASK_COMPLETED:")
IsFailedOnlyBlock(b) ==
    b.type = "text" /\ Contains(b.text, "TASK_FAILED:") /\ ~Contains(b.text, "TASK_COMPLETED:")

FirstHasCompleted ==
    respCount >= 1 /\ \E i \in 1..Len(firstResponse) : IsCompletedBlock(firstResponse[i])

FirstReachesCompleted ==
    /\ respCount >= 1
    /\ \E i \in 1..Len(firstResponse) :
          /\ IsCompletedBlock(firstResponse[i])
          /\ \A j \in 1..(i - 1) : ~IsFailedOnlyBlock(firstResponse[j])

PolicyDelay(attempt) ==
    IF impl = "CCU" THEN handle_rate_limit_error(attempt, DEFAULT_MAX_RETRIES, 2)
    ELSE ca_wait_time(attempt, CA_MAX_RETRIES)

\* C5 as stated: a model call that ends in a throttling or timeout error is
\* retried in the same iteration (retry counter up, iteration count kept) when
\* the backoff policy gives a delay, and ends the task as failed with the
\* rate-limit-exhausted reason when the policy gives none.
C5_AsStated ==
    [][(/\ pc = "call"
        /\ (pc' # pc \/ retry_attempt' # retry_attempt)
        /\ lastOutcome' \in {"rate_limit", "timeout"})
       => IF PolicyDelay(retry_attempt) # NoDelay
          THEN pc' = "call" /\ iterations' = iterations /\ retry_attempt' = retry_attempt + 1
          ELSE pc' = "done" /\ ~result'.success /\ result'.reason = "rate_limit_exhausted"]_vars

\* C6: after a model error that is neither throttling nor timeout the task
\* has ended as failed with the error text, and no further model call is made
\* (lastOutcome is rewritten by every call).
C6_OtherErrorFails ==
    lastOutcome = "other" =>
        /\ pc = "done"
        /\ ~result.success
        /\ result.reason = "model_error"
        /\ Contains(result.text, ErrorText("other"))

C6_Witness == lastOutcome = "other" /\ pc = "done" /\ respCount >= 1 /\ Len(executed) >= 1

HasResult(msgs, id) ==
    \E k \in 1..Len(msgs) : msgs[k].kind = "tool_result" /\ msgs[k].id = id

\* C7: the actions executed so far are, in order, the first computer
\* tool_use blocks the model sent (block order within a response, response
\* order across iterations), and at every model call each action executed
\* before it has its tool_result in the messages sent.
C7_Order ==
    /\ IsPrefix(executed, requested)
    /\ \A k \in 1..Len(execAtSend) : HasResult(lastSent, execAtSend[k])

C7_Witness ==
    /\ Len(execAtSend) >= 2
    /\ execAtSend[2] = execAtSend[1] + 1
    /\ Len(executed) > Len(execAtSend)

(***************************************************************************)
(* Properties of the session and of the task runner, under SpecSession.    *)
(***************************************************************************)
\* the steps the teardown has attempted, in order
StepsTried == [k \in 1..Len(teardown) |-> teardown[k].step]

\* C2: once the task runner has returned or raised, the provider's release
\* has been attempted for the session that was created, whether the with
\* body returned a success result, returned a failure result or raised, and
\* also when open failed after the session was created.
C2_ReleaseOnEveryExit ==
    (runnerOutcome # "running" /\ session) => releaseTried >= 1

C2_Witness ==
    /\ runnerOutcome = "raised"
    /\ openResult = "ok"
    /\ bodyOutcome = "raise"
    /\ releaseTried = 1

\* C3: when close() of an opened session is over, it has attempted to close
\* the page, then to close the control connection (and to stop playwright),
\* then to release the remote session, in that order, whichever of the steps
\* raised, and no exception has left close().
C3_CloseBestEffort ==
    (s_pc = "closed" /\ openResult = "ok") =>
        /\ StepsTried = <<"close_page", "close_browser", "stop_playwright", "release">>
        /\ ~closeRaised

C3_Witness ==
    /\ s_pc = "closed"
    /\ openResult = "ok"
    /\ Len(teardown) = 4
    /\ teardown[1].failed
    /\ teardown[2].failed
    /\ ~closeRaised

\* C4 as stated: when open() has failed, the control connection was tried
\* CONNECT_MAX_RETRIES times if it is the connection that failed, and a close
\* was attempted for every control connection made, a stop for playwright if
\* it was started and a release for the session if it was created.
C4_AsStated ==
    (openResult = "raised" /\ s_pc = "closed") =>
        /\ failedAt = "connect" => connect_attempt = CONNECT_MAX_RETRIES
        /\ opened \subseteq closeTried
        /\ playwright => stopTried >= 1
        /\ session => releaseTried >= 1

\* C10 as stated: an executeAction that finds the page missing or closed
\* tries to get a page from the browsing context, fails with session-closed
\* only if the context cannot supply one, and executes the action when the
\* context holds a page and the transport works.
C10_AsStated ==
    (lastAct.kind = "action" /\ lastAct.pageDead) =>
        /\ lastAct.reacquireTried
        /\ lastAct.outcome = "session_closed" => lastAct.ctx # "has_page"

(***************************************************************************)
(* Properties of the session pool, under SpecPool.                         *)
(***************************************************************************)
\* C8 as stated: no session is held by two tasks at once: a session handed
\* to one task by create_session is not handed to another task before the
\* first has released it.
C8_AsStated ==
    \A t1, t2 \in Tasks : t1 # t2 => held[t1] \cap held[t2] = {}

\* C9 as stated: after a lookup, the expired entries it visited are no
\* longer in the pool and the session it returned is not one of them; after
\* a cleanup, no entry that was expired is in the pool.
C9_AsStated ==
    lastOp.kind \in {"lookup", "cleanup"} =>
        /\ lastOp.expiredSeen \cap PoolIds = {}
        /\ lastOp.returned \notin lastOp.expiredSeen

(***************************************************************************)
(* More properties of the agent loop, under SpecLoop.                      *)
(***************************************************************************)
\* the texts of the exceptions an action or a capture raises
ActionErrors ==
    {"Browser session has been closed", "duration must be a number",
     "transport error", "screenshot failed", "duration is None"}

\* the task ended on an error of the model, of an action or of a capture
EndedOnError ==
    /\ pc = "done"
    /\ result.reason \in {"model_error", "rate_limit_exhausted", "no_response",
                          "processing_error"}

\* C11 as stated: a task that ended on a model error, a transport error or a
\* capture failure returned a result with success=false whose text carries
\* the text of the error.
C11_AsStated ==
    EndedOnError =>
        /\ ~result.success
        /\ IF result.reason = "processing_error"
           THEN \E e \in ActionErrors : Contains(result.text, e)
           ELSE Contains(result.text, ErrorText(lastOutcome))

(***************************************************************************)
(* A whole run of a task runner: run_browser_task (SteelBrowser with       *)
(* ClaudeAgent) and create_browser_automation_agent                        *)
(* (AsyncSteelBrowserSession with AsyncClaudeComputerUseAgent): the        *)
(* session is opened, execute_task runs as the with body, the session is   *)
(* closed, and the result is returned.                                     *)
(***************************************************************************)
\* the step budget of the whole runs
E2EMaxSteps == MaxIterations + 3

\* the responses of the model in the whole runs
E2EResponses ==
    {<<TextBlock(T_COMPLETED)>>,
     <<ToolBlock("computer", "left_click", FALSE)>>,
     <<TextBlock(T_FAILED)>>}

\* create_browser_automation_agent: result["session_url"] is set from the
\* session if there is one
runner_session_url_dropped(r, has_session) == r
runner_session_url(r, has_session) ==
    IF has_session THEN [r EXCEPT !.session_url = "viewer"] ELSE r

\* what the runner returns
RunnerResult ==
    IF impl = "CCU" THEN runner_session_url(result, session) ELSE result

InitE2E ==
    /\ LoopInitWith({E2EMaxSteps})
    /\ SessInit
    /\ PoolIdle
    /\ GetInit
    /\ FunIdle
    /\ ExecIdle
    /\ NavInit
    /\ BreakerIdle
    /\ TaskIdle
    /\ \/ s_impl = "simple" /\ impl = "CA"
       \/ s_impl = "async" /\ impl = "CCU"

\* execute_task runs inside the with statement
InBody == s_pc = "ready" /\ bodyOutcome = "none"

\* the with body ends when execute_task returns
TaskReturns ==
    /\ pc = "done"
    /\ BodyEnds(IF result.success THEN "success" ELSE "failure")

\* the agent's constructor raises before execute_task is called
AgentInitRaises ==
    /\ pc = "loop_top"
    /\ iterations = 0
    /\ BodyEnds("raise")

E2ENext ==
    \/ \E ok \in BOOLEAN : OpenCreate(ok)
    \/ \E o \in {"ok", "no_key", "raise"} : OpenStartPlaywright(o)
    \/ \E o \in {"raise", "exc_after_connect", "valid"} : OpenConnect(o)
    \/ \E ok \in BOOLEAN : OpenSetup(ok)
    \/ \E fails \in {0, 1} : OpenNavigate(fails, 0)
    \/ InBody /\ LoopTop
    \/ InBody /\ \E r \in E2EResponses : ModelResponds(r)
    \/ InBody /\ \E o \in {"rate_limit", "timeout", "other"} : ModelRaises(o)
    \/ InBody /\ ProcessText
    \/ InBody /\ \E env \in Envs : ProcessTool(env)
    \/ TaskReturns
    \/ AgentInitRaises
    \/ \E failed \in BOOLEAN : TeardownStep(failed)

SpecE2E == InitE2E /\ [][E2ENext]_vars

\* C12: when a runner called with the budget of E2EMaxSteps has opened its
\* session and returned, and the model's first response was the one text
\* block "TASK_COMPLETED: done", the returned result has success=true, a text
\* containing "done", a step count of 1 and the session's viewer URL.
C12_EndToEnd ==
    (/\ runnerOutcome = "returned"
     /\ max_iterations = E2EMaxSteps
     /\ respCount >= 1
     /\ Len(firstResponse) = 1
     /\ firstResponse[1].type = "text"
     /\ firstResponse[1].text = T_COMPLETED)
    => /\ RunnerResult.success
       /\ Contains(RunnerResult.text, "done")
       /\ RunnerResult.iterations = 1
       /\ RunnerResult.session_url = "viewer"

C12_Witness ==
    /\ runnerOutcome = "returned"
    /\ impl = "CCU"
    /\ max_iterations = E2EMaxSteps
    /\ respCount = 1
    /\ firstResponse[1].text = T_COMPLETED
    /\ ~everModelError
    /\ RunnerResult.iterations = 1
    /\ RunnerResult.session_url = "viewer"

(***************************************************************************)
(* Properties of the screenshot cache, under SpecGet.                      *)
(***************************************************************************)
\* C13: of two consecutive calls that returned, with nothing else touching
\* the cache in between, a second call with force_new=False made while the
\* cache is younger than the cache window returns the screenshot the first
\* call returned and captures nothing; a call with force_new=True that
\* returns has captured a new screenshot, which is now the cached one.
C13_Cache ==
    /\ (/\ g_prev.kind = "get" /\ g_prev.returned # 0
        /\ g_last.kind = "get" /\ ~g_last.force_new
        /\ g_last.age < CACHE_DURATION)
       => (g_last.returned = g_prev.returned /\ ~g_last.captured)
    /\ (g_last.kind = "get" /\ g_last.force_new /\ g_last.returned # 0)
       => (/\ g_last.captured
           /\ cache = g_last.returned
           /\ g_prev.kind = "get" => g_last.returned # g_prev.returned)

C13_Witness ==
    /\ g_prev.kind = "get" /\ g_prev.captured /\ ~g_prev.force_new
    /\ g_last.kind = "get" /\ ~g_last.force_new /\ ~g_last.captured
    /\ g_last.age = 1
    /\ g_last.returned = g_prev.returned

(***************************************************************************)
(* Properties of the pure functions, under SpecFun.                        *)
(***************************************************************************)
BackoffReturned == f_pc = "returned" /\ f_call.fn = "_handle_rate_limit_error"
ClampCalled == f_call.fn \in {"clamp_coordinates", "_clamp_coords"}

\* C14: the backoff returns None for every attempt >= max_retries and a
\* delay for every attempt in [0, max_retries).
C14_NoneIffExhausted ==
    BackoffReturned =>
        IF f_call.args[1] >= f_call.args[2]
        THEN f_ret = <<>>
        ELSE Len(f_ret) = 1 /\ f_ret[1] > 0

C14_Witness ==
    /\ BackoffReturned
    /\ f_call.args[1] = DEFAULT_MAX_RETRIES
    /\ f_call.args[2] = DEFAULT_MAX_RETRIES
    /\ f_ret = <<>>

\* C15 as stated: for attempts 0, 1, 2, 3 and 4 the delay lies in [0.5, 1.0],
\* [1.0, 1.5], [2.0, 2.5], [4.0, 4.5] and [8.0, 8.5] seconds (delays in
\* tenths of a second), whatever the jitter.
ExpectedRanges == <<<<5, 10>>, <<10, 15>>, <<20, 25>>, <<40, 45>>, <<80, 85>>>>

C15_AsStated ==
    (/\ BackoffReturned
     /\ f_call.args[1] < Len(ExpectedRanges)
     /\ f_call.args[2] = DEFAULT_MAX_RETRIES)
    => /\ Len(f_ret) = 1
       /\ f_ret[1] >= ExpectedRanges[f_call.args[1] + 1][1]
       /\ f_ret[1] <= ExpectedRanges[f_call.args[1] + 1][2]

\* the value the clamp should give on one axis
OnAxis(v, size) == IF v < 0 THEN 0 ELSE IF v >= size THEN size - 1 ELSE v

\* C16: for all integer (x, y) and every viewport (w, h) with w, h >= 1 the
\* clamp returns (x', y') with 0 <= x' < w and 0 <= y' < h, x' depends on x
\* and w only and y' on y and h only, and clamping the result again gives
\* the same point.
C16_Clamp ==
    /\ (ClampCalled /\ f_pc = "returned") =>
          /\ Len(f_ret) = 2
          /\ 0 <= f_ret[1] /\ f_ret[1] < f_call.args[3]
          /\ 0 <= f_ret[2] /\ f_ret[2] < f_call.args[4]
          /\ f_ret[1] = OnAxis(f_call.args[1], f_call.args[3])
          /\ f_ret[2] = OnAxis(f_call.args[2], f_call.args[4])
    /\ (ClampCalled /\ f_pc = "reapplied") => f_ret = f_first

C16_Witness ==
    /\ f_call.fn = "clamp_coordinates"
    /\ f_pc = "reapplied"
    /\ f_call.args[1] < 0
    /\ f_call.args[2] >= f_call.args[4]
    /\ f_ret = <<0, f_call.args[4] - 1>>

(***************************************************************************)
(* Properties of the action executors, under SpecExec.                     *)
(***************************************************************************)
KeyboardEvents == SelectSeq(x_events, LAMBDA e : e.op \in {"down", "press", "up"})
KeysOf(op) == LET es == SelectSeq(x_events, LAMBDA e : e.op = op)
              IN [i \in 1..Len(es) |-> es[i].key]
InputEvents == SelectSeq(x_events, LAMBDA e : e.op # "screenshot")
WheelEvents == SelectSeq(x_events, LAMBDA e : e.op = "wheel")
ComboCalled == x_in.action = "key" /\ x_in.text.some /\ HasPlus(x_in.text.v) /\ ~x_closed

\* C17 as stated: the combination "ctrl+shift+a" gives key-down Control,
\* key-down Shift, the press of a, key-up Shift, key-up Control, in that
\* order; and for every combination the modifiers pressed down are all
\* released, in reverse order of pressing.
C17_AsStated ==
    /\ (/\ ComboCalled
        /\ x_in.text.v = <<"ctrl", "+", "shift", "+", "a">>
        /\ x_error.kind = "none")
       => KeyboardEvents = <<Ev("down", "Control", 0, 0), Ev("down", "Shift", 0, 0),
                             Ev("press", "a", 0, 0),
                             Ev("up", "Shift", 0, 0), Ev("up", "Control", 0, 0)>>
    /\ ComboCalled => KeysOf("up") = Reverse(KeysOf("down"))

\* the deltas the claim gives for a direction and an amount
ClaimedDeltas(d, n) ==
    CASE d = "down" -> <<0, 100 * n>>
      [] d = "up" -> <<0, 0 - 100 * n>>
      [] d = "right" -> <<100 * n, 0>>
      [] OTHER -> <<0 - 100 * n, 0>>

ScrollCalled == x_in.action = "scroll" /\ ~x_closed /\ x_error.kind # "PlaywrightError"

\* C18 as stated: a scroll with a direction in {up, down, left, right} and a
\* non-negative integer amount n issues exactly one wheel event, with deltas
\* (0, 100n), (0, -100n), (100n, 0), (-100n, 0) for down, up, right, left; a
\* direction outside the four, or an amount that is missing, negative or not
\* an integer, is rejected before any call of the page.
C18_AsStated ==
    /\ (/\ ScrollCalled
        /\ x_in.scroll_direction \in {"up", "down", "left", "right"}
        /\ x_in.scroll_amount.t = "int" /\ x_in.scroll_amount.v >= 0)
       => /\ x_error.kind = "none"
          /\ Len(WheelEvents) = 1
          /\ <<WheelEvents[1].x, WheelEvents[1].y>>
                = ClaimedDeltas(x_in.scroll_direction, x_in.scroll_amount.v)
    /\ (/\ ScrollCalled
        /\ \/ x_in.scroll_direction \notin {"up", "down", "left", "right"}
           \/ x_in.scroll_amount.t \in {"none", "float"}
           \/ x_in.scroll_amount.t = "int" /\ x_in.scroll_amount.v < 0)
       => x_error.kind # "none" /\ x_ncalls = 0

\* C19 as stated: a left, right, double, triple or middle click given a
\* non-null text fails with an invalid-argument error and makes no call of
\* the page: no mouse event, no keyboard event, no screenshot.
C19_AsStated ==
    (/\ x_in.action \in {"left_click", "right_click", "double_click", "triple_click",
                         "middle_click"}
     /\ x_in.text.some
     /\ ~x_closed)
    => x_error.kind = "ValueError" /\ x_ncalls = 0 /\ x_events = <<>>

\* C20 as stated: an action name outside the vocabulary fails with an
\* invalid-action error that names the value given, and no input event is
\* issued.
C20_AsStated ==
    (x_in.action \in {"click", "hover"} /\ ~x_closed)
    => /\ x_error.kind = "ValueError"
       /\ x_error.msg = <<"Invalid action:", x_in.action>>
       /\ InputEvents = <<>>

ClickEvents == SelectSeq(x_events, LAMBDA e : e.op \in {"click", "dblclick"})
ClickReturned ==
    /\ x_in.action \in {"left_click", "right_click", "double_click", "triple_click",
                        "middle_click"}
    /\ ~x_in.text.some
    /\ ~x_closed
    /\ x_error.kind = "none"

\* C21 as stated: a click without a coordinate is performed at the last
\* known pointer position, or at (width div 2, height div 2) when none is
\* recorded; a modifier key given with a click is pressed down before the
\* click and released right after it, so none stays held when the action
\* returns.
C21_AsStated ==
    /\ (ClickReturned /\ x_in.coordinate = <<>>)
       => /\ ClickEvents # <<>>
          /\ \A i \in 1..Len(ClickEvents) :
                <<ClickEvents[i].x, ClickEvents[i].y>>
                   = IF x_pos # <<>> THEN x_pos
                     ELSE <<dimensions[1] \div 2, dimensions[2] \div 2>>
    /\ (ClickReturned /\ x_in.key # "")
       => /\ KeysOf("down") = <<"Shift">>
          /\ KeysOf("up") = <<"Shift">>
          /\ \E i, j \in 1..Len(x_events) :
                /\ i < j
                /\ x_events[i].op = "down"
                /\ x_events[j].op = "up"
                /\ \A k \in 1..Len(x_events) :
                      x_events[k].op \in {"click", "dblclick"} => (i < k /\ k < j)

DurationCalled ==
    /\ x_in.action \in {"hold_key", "wait"}
    /\ ~x_closed
    /\ x_error.kind # "PlaywrightError"
DurationInRange ==
    /\ x_in.duration.t \in {"int", "float"}
    /\ x_in.duration.v >= 0
    /\ x_in.duration.v <= (IF x_in.duration.t = "float" THEN 1000 ELSE 100)
NotScreenshots == SelectSeq(x_events, LAMBDA e : e.op # "screenshot")

\* C22 as stated: hold_key and wait given a missing, non-numeric, negative
\* or greater-than-100 duration are rejected before any key event or sleep;
\* with a duration in [0, 100] hold_key issues key-down, a sleep and key-up
\* of the same key, and wait sleeps and issues no input event.
C22_AsStated ==
    /\ (DurationCalled /\ ~DurationInRange)
       => x_error.kind # "none" /\ NotScreenshots = <<>>
    /\ (DurationCalled /\ DurationInRange /\ x_in.action = "hold_key" /\ x_in.text.some)
       => /\ x_error.kind = "none"
          /\ Len(NotScreenshots) = 3
          /\ NotScreenshots[1].op = "down"
          /\ NotScreenshots[2].op = "sleep"
          /\ NotScreenshots[3].op = "up"
          /\ NotScreenshots[3].key = NotScreenshots[1].key
    /\ (DurationCalled /\ DurationInRange /\ x_in.action = "wait")
       => /\ x_error.kind = "none"
          /\ Len(NotScreenshots) = 1
          /\ NotScreenshots[1].op = "sleep"

(***************************************************************************)
(* Properties of the navigation of open, under SpecSession.                *)
(***************************************************************************)
ClaimedOrder == <<"start", "search", "example", "placeholder">>
Navigated == s_impl \in {"sync", "async"} /\ s_pc = "ready" /\ nav.lost = 0

\* C23 as stated: a failing navigation never makes open fail; after the
\* start URL fails the search-engine URL, the example domain and the inline
\* placeholder are tried in that order up to the first success, and when
\* every goto fails open still succeeds.
C23_AsStated ==
    /\ s_pc = "navigate" => openResult # "raised"
    /\ Navigated =>
          /\ openResult = "ok"
          /\ nav.tried = SubSeq(ClaimedOrder, 1, Min(nav.fails + 1, Len(ClaimedOrder)))
          /\ nav.landed = IF nav.fails < Len(ClaimedOrder)
                          THEN ClaimedOrder[nav.fails + 1] ELSE "none"

\* C24 as stated: screenshot() tries the fallback capture only after the
\* primary capture failed, returns the fallback's image when the fallback
\* succeeds, and fails only when both captures failed; a failing liveness
\* check never makes it fail.
C24_AsStated ==
    lastAct.kind = "screenshot" =>
        /\ lastAct.fallback # "none" => lastAct.primary = "failed"
        /\ lastAct.fallback = "ok" => lastAct.outcome = "captured_fallback"
        /\ lastAct.outcome \notin {"captured", "captured_fallback"}
              => (lastAct.primary = "failed" /\ lastAct.fallback = "failed")
        /\ (lastAct.keepalive = "failed" /\ lastAct.primary = "ok")
              => lastAct.outcome = "captured"

(***************************************************************************)
(* Further properties of the agent loop, under SpecLoop.                   *)
(***************************************************************************)
\* C25 as stated: every terminal outcome of the loop carries a success
\* flag, a text, the number of iterations consumed and the current page
\* URL, which is the empty string when the URL cannot be read.
C25_AsStated ==
    pc = "done" =>
        /\ result.success \in BOOLEAN
        /\ result.text # <<>>
        /\ result.iterations = iterations
        /\ result.final_url \in {"https://page", ""}

\* a step in which the model is called
ModelCalled == pc = "call" /\ (pc' # pc \/ retry_attempt' # retry_attempt)

\* C26: the message list sent at each model call extends the list sent at
\* the call before (no earlier turn removed, moved or changed), and a call
\* repeated after a throttling error sends the same list again.
C26_Monotonic ==
    [][/\ IsPrefix(lastSent, lastSent')
       /\ (ModelCalled /\ retry_attempt > 0) => lastSent' = lastSent]_vars

C26_Witness ==
    /\ pc = "call"
    /\ retry_attempt > 0
    /\ Len(lastSent) > 1
    /\ lastOutcome \in {"rate_limit", "timeout"}
    /\ respCount > 0

\* a step that handles a tool_use block named "computer"
ToolStep ==
    /\ pc = "process" /\ executed' # executed
    /\ (response[blockIdx].action \in {"wait", "hold_key"} => response[blockIdx].has_duration)
EnvErrors == {"Browser session has been closed", "transport error", "screenshot failed"}

\* C27 as stated: for every tool_use block of the computer tool, a wait
\* carrying a numeric duration included, the loop executes the action,
\* appends the tool_use turn and the tool_result turn with the screenshot,
\* and goes on with the next block; only a failure of the browser ends it.
C27_AsStated ==
    [][ToolStep =>
          \/ /\ Len(messages') = Len(messages) + 2
             /\ IsPrefix(messages, messages')
             /\ messages'[Len(messages) + 1].role = "assistant"
             /\ messages'[Len(messages) + 2].role = "user"
             /\ messages'[Len(messages) + 2].data # 0
             /\ pc' # "done"
          \/ /\ pc' = "done"
             /\ result'.text[2] \in EnvErrors]_vars

\* a call of call / async_call starts; the wrapped function raises
\* expected_exception; an awaited call ends
CallStep == cb_attempts' = cb_attempts + 1
FailureStep == cb_streak' = cb_streak + 1
AwaitEnds == cb_inflight' = cb_inflight - 1
TimeoutElapsed ==
    cb.last_failure_time = NoTime \/ cb_time - cb.last_failure_time >= cb.recovery_timeout

\* C28: the failure that brings the number of expected failures since the last
\* success to failure_threshold opens the breaker; a call made while the
\* breaker is open and recovery_timeout has not elapsed since the last failure
\* is rejected, the wrapped function is not invoked, and failure count and
\* state stay as they were.
C28_Breaker ==
    [][/\ (FailureStep /\ cb_streak' >= cb.failure_threshold) => cb'.state = "open"
       /\ (CallStep /\ cb.state = "open" /\ ~TimeoutElapsed) =>
              /\ cb_last'.outcome = "rejected"
              /\ cb_invoked' = cb_invoked
              /\ cb' = cb]_vars
C28_Witness ==
    /\ cb.failure_threshold = MaxThreshold
    /\ cb_streak = cb.failure_threshold
    /\ cb.state = "open"
    /\ cb_last.outcome = "rejected"
    /\ cb_invoked < cb_attempts

\* C29: a call made on an open breaker once recovery_timeout has elapsed
\* reaches the wrapped function (the breaker is half-open while the call
\* runs); when that call returns the breaker is closed with failure count 0,
\* when it raises the expected exception the breaker is open again.
C29_HalfOpen ==
    [][/\ (CallStep /\ cb.state = "open" /\ TimeoutElapsed) =>
              /\ cb_invoked' = cb_invoked + 1
              /\ cb_last'.outcome # "rejected"
              /\ cb_last'.outcome = "awaiting" => cb'.state = "half-open"
              /\ cb_last'.outcome = "success" => cb'.state = "closed" /\ cb'.failure_count = 0
              /\ cb_last'.outcome = "failure" => cb'.state = "open"
       /\ (AwaitEnds /\ cb.state = "half-open") =>
              /\ cb_last'.outcome = "success" => cb'.state = "closed" /\ cb'.failure_count = 0
              /\ cb_last'.outcome = "failure" => cb'.state = "open"]_vars
C29_Witness ==
    /\ cb_last = [via |-> "call", outcome |-> "failure"]
    /\ cb.state = "open"
    /\ cb.recovery_timeout > 0
    /\ cb_inflight = 0
    /\ cb_attempts = cb_streak
    /\ cb_streak = cb.failure_threshold + 1

\* SteelSessionManager(max_sessions): a limit one below the number of sessions
\* the provider hands out here (the clients construct the manager with the
\* default, 10)
max_sessions == MaxSessions - 1

\* SteelSessionManager.get_stats
get_stats ==
    LET total_sessions == Cardinality({i \in SessionIds : pool[i].present})
        in_use_sessions == Cardinality({i \in SessionIds : pool[i].present /\ pool[i].in_use})
    IN [total_sessions |-> total_sessions,
        in_use_sessions |-> in_use_sessions,
        available_sessions |-> total_sessions - in_use_sessions,
        max_sessions |-> max_sessions]

\* C30 as stated: whatever create_session, add_session, release and cleanup
\* calls have been made, the pool holds at most max_sessions sessions.
C30_AsStated == get_stats.total_sessions <= get_stats.max_sessions

\* C31 as stated: when the task raised after the agent had created the
\* session itself (no session_id was passed), that session has been released;
\* a session passed in by the caller is never released.
C31_AsStated ==
    /\ (bt_pc = "raised" /\ bt_arg = 0 /\ bt_session # 0) => bt_session \in bt_released
    /\ bt_arg # 0 => bt_arg \notin bt_released

\* C32: whatever the model does and whatever max_iterations >= 0 is,
\* execute_task ends; a model call is never made after RETRY_LIMIT (10) calls
\* of the same iteration, so the calls made never exceed 10 per iteration
\* begun; every iteration starts with the retry counter at 0; and the
\* iteration count in the result is at most max_iterations.
C32_Terminates ==
    /\ <>(pc = "done")
    /\ [](pc = "call" => retry_attempt < RETRY_LIMIT)
    /\ [](modelCalls <= RETRY_LIMIT * iterations /\ iterations <= max_iterations)
    /\ [][iterations' # iterations => iterations' = iterations + 1 /\ retry_attempt' = 0]_vars
    /\ [](pc = "done" => result.iterations <= max_iterations)
C32_Witness ==
    /\ pc = "done"
    /\ max_iterations = MaxIterations
    /\ modelCalls = RETRY_LIMIT * max_iterations
    /\ result.iterations = max_iterations

\* the loop stopped while it was at a text block holding TASK_COMPLETED:
StoppedOnCompleted ==
    /\ pc = "done"
    /\ blockIdx \in 1..Len(response)
    /\ response[blockIdx].type = "text"
    /\ Contains(response[blockIdx].text, "TASK_COMPLETED:")

\* C33: the result has success = TRUE exactly when the loop stopped on a text
\* block containing TASK_COMPLETED:, a block containing both sentinels
\* included; every other way of ending gives success = FALSE.
C33_Success ==
    pc = "done" =>
        /\ result.success <=> StoppedOnCompleted
        /\ result.success => result.text = response[blockIdx].text
C33_Witness ==
    /\ StoppedOnCompleted
    /\ Contains(response[blockIdx].text, "TASK_FAILED:")
    /\ result.success
    /\ iterations > 1

\* the turns at i and i + 1 of conv are a tool_use and its tool_result
PairAt(conv, i, id) ==
    /\ i < Len(conv)
    /\ conv[i].kind = "tool_use" /\ conv[i].id = id
    /\ conv[i + 1].kind = "tool_result" /\ conv[i + 1].id = id
\* a response has been processed to its end and the next iteration begins:
\* the conversation of this moment is the one the next call sends
NextIteration == pc = "loop_top" /\ pc' = "call"

\* C34 as stated: in every conversation sent, a tool_use turn is followed at
\* once by the tool_result turn of the same id, and every tool_use block of
\* the response before, whatever its tool name, has such a pair in the
\* conversation the next call sends.
C34_AsStated ==
    /\ [](\A i \in 1..Len(lastSent) :
              lastSent[i].kind = "tool_use" => PairAt(lastSent, i, lastSent[i].id))
    /\ [][NextIteration =>
              \A k \in 1..Len(response) :
                  response[k].type = "tool_use" =>
                      \E i \in 1..Len(messages) : PairAt(messages, i, response[k].id)]_vars

\* the number of sessions the provider created for this session object
SessionsCreated == IF session THEN 1 ELSE 0

\* C35: sessions.release is never called more often than sessions were
\* created, and once open has failed and cleaned up, or close has run after a
\* finished or a raising body, it has been called exactly once for the session
\* that was created.
C35_ReleaseOnce ==
    /\ releaseTried <= SessionsCreated
    /\ s_pc = "closed" => releaseTried = SessionsCreated
C35_Witness ==
    /\ s_pc = "closed"
    /\ openResult = "raised"
    /\ failedAt = "connect"
    /\ session
    /\ releaseTried = 1
    /\ Len(teardown) >= 2

\* control connections made and not yet passed to close()
HeldOpen == opened \ closeTried

\* C36 as stated: at no moment of open() or later is more than one control
\* connection held open, and once the cleanup of a failed open or close() is
\* over every control connection that was made has been closed.
C36_AsStated ==
    /\ Cardinality(HeldOpen) <= 1
    /\ s_pc = "closed" => HeldOpen = {}

\* a step of cleanup_sessions that removed entries
CleanupStep == lastOp'.kind = "cleanup" /\ pool' # pool /\ provReleased \subseteq provReleased'
Borrowed(id) == pool[id].present /\ pool[id].in_use

\* C37 as stated: a cleanup leaves every entry whose in_use flag is set in
\* the pool and does not release it at the provider.
C37_AsStated ==
    [][CleanupStep =>
          \A id \in SessionIds :
              Borrowed(id) => /\ pool'[id] = pool[id]
                              /\ (id \in provReleased' => id \in provReleased)]_vars

\* what the other of the two session implementations does on the input of
\* this step, from the same remembered position
TwinPlan ==
    IF x_impl = "session"
    THEN execute_computer_action_plan_async(x_in', x_pos, x_closed')
    ELSE execute_computer_action_plan(x_in', x_pos, x_closed')

\* C38 as stated: on every action and parameter combination, from the same
\* state and with a transport that works, the sync and the async session make
\* the same transport calls, remember the same pointer position and end the
\* same way (a screenshot, or the same error).
C38_AsStated ==
    [][(x_impl \in {"session", "async"} /\ x_error'.kind # "PlaywrightError") =>
          /\ x_events' = EmitAll(TwinPlan.calls)
          /\ x_error' = TwinPlan.error
          /\ x_pos' = PosAfter(x_pos, TwinPlan.calls)]_vars

\* ---------------------------------------------------------------------------
\* C39
\* ---------------------------------------------------------------------------
InViewport(p) ==
    /\ 0 <= p[1] /\ p[1] < dimensions[1]
    /\ 0 <= p[2] /\ p[2] < dimensions[2]
PointerEvents == {"move", "click", "dblclick"}

\* C39: in both session classes the remembered _last_mouse_position is
\* either unset or a point of the viewport (0 <= x < width, 0 <= y < height),
\* and every coordinate handed to a mouse move, click or drag call of the
\* page is a point of the viewport.
C39_InViewport ==
    x_impl \in {"session", "async"} =>
        /\ x_pos = NoCoord \/ InViewport(x_pos)
        /\ \A i \in 1..Len(x_events) :
               x_events[i].op \in PointerEvents =>
                   InViewport(<<x_events[i].x, x_events[i].y>>)

\* a coordinate beyond the right edge was given, the move was made and the
\* position remembered is not the one given
C39_Witness ==
    /\ x_impl \in {"session", "async"}
    /\ x_in.coordinate = FarCoord
    /\ x_error = NoErr
    /\ x_pos # NoCoord
    /\ x_pos # FarCoord
    /\ \E i \in 1..Len(x_events) : x_events[i].op = "move"

\* ---------------------------------------------------------------------------
\* C40
\* ---------------------------------------------------------------------------
\* the events of the last call that reached the mouse or the keyboard
TransportInputEvents(evs) == SelectSeq(evs, LAMBDA e : e.op \notin {"screenshot", "sleep"})
RejectedForParameters == x_error'.kind = "ValueError"

\* C40: a call of SteelBrowserSession.execute_computer_action that is given
\* no coordinate (screenshot, cursor_position, key, type, wait, hold_key, a
\* click or a scroll without coordinate) leaves _last_mouse_position as it
\* was, and a call rejected for its parameters (ValueError) leaves
\* _last_mouse_position as it was and sends no mouse or keyboard event.
C40_Frame ==
    [][x_impl = "session" =>
          /\ x_in'.coordinate = NoCoord => x_pos' = x_pos
          /\ RejectedForParameters =>
                 /\ x_pos' = x_pos
                 /\ TransportInputEvents(x_events') = <<>>]_vars

\* a call was rejected for its parameters while a position was remembered
C40_Witness ==
    /\ x_impl = "session"
    /\ x_in.action # "none"
    /\ x_error.kind = "ValueError"
    /\ x_pos # NoCoord
    /\ TransportInputEvents(x_events) = <<>>
====
